---- MODULE Spec2Model ----
(***************************************************************************)
(* Verification model of three parts of the repository:                    *)
(*                                                                         *)
(*  1. the Airtable automation script for two-way Airtable/WooCommerce     *)
(*     sync (02-wordpress/06-Auto-Sync-Stock/                              *)
(*     airtable-automation-bidirectional.js), with the webhook companion   *)
(*     and the WooCommerce write-back it talks to (SyncSpec, SyncFair);    *)
(*  2. the Airtable-backed inventory REST server of                        *)
(*     04-4more-apps/complete-deployment-guide.md: its writing routes     *)
(*     with overlapping requests (ApiSpec) and with one client (ApiSeq),  *)
(*     its settings routes (SettingsSpec) and its query routes             *)
(*     (QuerySpec);                                                        *)
(*  3. the React Native app of 04-4more-apps/inventory-mobile-app.js:      *)
(*     session, sign-in, logout and the scanner tab (AppSpec).             *)
(*                                                                         *)
(* Each specification leaves the other part's variables unchanged.         *)
(***************************************************************************)
EXTENDS Integers, Sequences, FiniteSets, TLC

VARIABLES
    \* ---- Airtable automation / WooCommerce loop ----
    table,            \* Airtable "Products" table: record id -> record or NoRecord
    triggers,         \* automation triggers fired by Airtable, not yet run
    pc,               \* position of the script run in progress
    inputConfig,      \* input.config() of the run: recordId, triggerType (+ edit tag)
    record,           \* result of table.selectRecordAsync(recordId)
    minutesSinceSync, \* now - lastSyncTime (in ticks) when shouldSync looked at the record
    output,           \* output.set(key, value) calls of the run, as a function
    sent,             \* the fetch() requests the run has issued
    response,         \* history: how the run's fetch() ended ("none": not called)
    webhooks,         \* webhook POSTs accepted by the companion, not yet mirrored
    woo,              \* WooCommerce stock per product
    wooEvents,        \* WooCommerce product changes not yet written back to Airtable
    nEdits,           \* number of human actions so far
    outcome,          \* history: what became of each human edit
    editRecent,       \* history: was the edit made < threshold after a WooCommerce stamp
    \* ---- inventory REST server ----
    users,            \* Airtable "Users" table: set of records
    products,         \* Airtable "Products" table: set of records
    history,          \* Airtable "ScanHistory" table, in order of creation
    nextId,           \* next record id Airtable hands out
    req,              \* per request: route, token and parameters
    rpc,              \* per request: position in middleware / route handler
    local,            \* per request: req.user and the handler's local variables
    resp,             \* per request: the response sent (status 0: none yet)
    ops,              \* history: the Airtable calls made for the request
    failed,           \* history: a call made by the route handler failed
    nFailures,        \* number of Airtable / provider calls that have failed so far
    env,              \* process.env: the names of the API keys that are configured
    settings,         \* Airtable "Settings" table: set of records
    \* --- mobile app ---
    AsyncStorage,     \* the device's key-value store
    Authorization,    \* axios.defaults.headers.common['Authorization']
    App,              \* state of App: user, loading
    LoginScreen,      \* state of LoginScreen: loading, and the handleAuth call under way
    MainApp,          \* state of MainApp: the logout under way, a loadStats under way
    ScannerTab,       \* state of ScannerTab: loading, product, showProductModal, calls
    loggedOut,        \* history: the start in which a logout ran to its end, with
                      \* nothing stored since; 0 if there is none
    starts            \* number of times the app was started

syncVars == <<table, triggers, pc, inputConfig, record, minutesSinceSync, output,
              sent, response, webhooks, woo, wooEvents, nEdits, outcome, editRecent>>
apiVars == <<users, products, history, nextId, req, rpc, local, resp, ops, failed,
             nFailures, env, settings>>
appVars == <<AsyncStorage, Authorization, App, LoginScreen, MainApp, ScannerTab, loggedOut,
             starts>>
vars == <<syncVars, apiVars, appVars>>

(***************************************************************************)
(*                 PART 1: airtable-automation-bidirectional.js            *)
(***************************************************************************)

\* ---- configuration (lines 5-7) ----
WEBHOOK_URL == "https://webhook.4more.ca/webhook/airtable"
WEBHOOK_SECRET == "your_webhook_secret"
SYNC_THRESHOLD_MINUTES == 1

\* ---- bounds of the model ----
TicksPerMinute == 2     \* clock resolution: ticks in one minute
MaxRecords == 1         \* record ids 1..MaxRecords
MaxStock == 1           \* Stock Quantity ranges over 0..MaxStock
MaxEdits == 2           \* human actions on the table

RecordIds == 1..MaxRecords
NoId == 0               \* recordId input variable left empty (falsy, line 43)
NoSync == -1            \* empty "Last WooCommerce Sync" cell (falsy, line 27)
BaseId == "base"        \* base.id
\* selectRecordAsync's null (line 47), and an id with no record in the table
NoRecord == [id |-> NoId, name |-> "", sku |-> "", stock |-> 0, lastWooSync |-> NoSync]
NewRecord(r, q) == [id |-> r, name |-> "P", sku |-> "S", stock |-> q, lastWooSync |-> NoSync]

\* Timestamps are held as their age now - t, in ticks; every age at or above the
\* threshold behaves alike in the script, so ages saturate there.
ThresholdTicks == SYNC_THRESHOLD_MINUTES * TicksPerMinute
MaxAge == ThresholdTicks
Older(a) == IF a = NoSync THEN NoSync ELSE IF a < MaxAge THEN a + 1 ELSE MaxAge

TriggerTypes == {"create", "update", "delete"}

\* Variants of shouldSync with a plausible slip: the comparison turned round,
\* and the create case left out.
shouldSync_flipped(triggerType, since) ==
    IF triggerType = "create" THEN TRUE
    ELSE IF since # NoSync /\ since > ThresholdTicks THEN FALSE
    ELSE TRUE

shouldSync_noCreate(triggerType, since) ==
    IF since # NoSync /\ since < ThresholdTicks THEN FALSE
    ELSE TRUE

\* Variant of shouldSync whose comparison includes the threshold itself.
shouldSync_inclusive(triggerType, since) ==
    IF triggerType = "create" THEN TRUE
    ELSE IF since # NoSync /\ since <= ThresholdTicks THEN FALSE
    ELSE TRUE

\* shouldSync(record), lines 18-40; since = now - lastSyncTime, or NoSync when
\* the cell is empty.
shouldSync(triggerType, since) ==
    IF triggerType = "create" THEN TRUE
    ELSE IF since # NoSync /\ since < ThresholdTicks THEN FALSE
    ELSE TRUE

\* webhookData, lines 56-73.
RecordFields(rec) ==
    ("Product Name" :> rec.name) @@ ("SKU" :> rec.sku) @@ ("Stock Quantity" :> rec.stock)

\* Variant of webhookData that attaches the fields whatever the trigger type.
webhookData_fieldsAlways(triggerType, rec) ==
    [type |-> "record." \o triggerType \o "d",
     base |-> [id |-> BaseId],
     record |-> [id |-> rec.id, fields |-> RecordFields(rec)]]

webhookData(triggerType, rec) ==
    IF triggerType # "delete"
    THEN [type |-> "record." \o triggerType \o "d",
          base |-> [id |-> BaseId],
          record |-> [id |-> rec.id, fields |-> RecordFields(rec)]]
    ELSE [type |-> "record." \o triggerType \o "d",
          base |-> [id |-> BaseId],
          record |-> [id |-> rec.id]]

\* The fetch() call, lines 77-84.
WebhookRequest(triggerType, rec) ==
    [url |-> WEBHOOK_URL,
     method |-> "POST",
     headers |-> ("Content-Type" :> "application/json") @@
                 ("X-Airtable-Signature" :> WEBHOOK_SECRET),
     body |-> webhookData(triggerType, rec)]

NoOutput == [k \in {} |-> ""]
SetOutput(out, key, value) == (key :> value) @@ out
Status(out) == IF "status" \in DOMAIN out THEN out["status"] ELSE "unset"

SyncInit ==
    /\ table \in {t \in [RecordIds -> {NoRecord} \cup {NewRecord(r, 0) : r \in RecordIds}] :
                       \A r \in RecordIds : t[r].id \in {NoId, r}}
    /\ triggers = {}
    /\ pc = "idle"
    /\ inputConfig = [recordId |-> NoId, triggerType |-> "update", edit |-> 0]
    /\ record = NoRecord
    /\ minutesSinceSync = NoSync
    /\ output = NoOutput
    /\ sent = <<>>
    /\ response = "none"
    /\ webhooks = {}
    /\ woo = [r \in RecordIds |-> 0]
    /\ wooEvents = {}
    /\ nEdits = 0
    /\ outcome = [e \in 1..MaxEdits |-> "none"]
    /\ editRecent = [e \in 1..MaxEdits |-> FALSE]

\* ---- what happens to the table outside the script ----

Trigger(r, type, e) == [recordId |-> r, triggerType |-> type, edit |-> e]
Recent(age) == age # NoSync /\ age < ThresholdTicks

\* A person adds a record: Airtable fires AUTOMATION 1 (lines 117-122).
HumanCreate(r) ==
    /\ nEdits < MaxEdits
    /\ table[r] = NoRecord
    /\ \E q \in 0..MaxStock : table' = [table EXCEPT ![r] = NewRecord(r, q)]
    /\ nEdits' = nEdits + 1
    /\ triggers' = triggers \cup {Trigger(r, "create", nEdits + 1)}
    /\ outcome' = [outcome EXCEPT ![nEdits + 1] = "pending"]
    /\ UNCHANGED <<apiVars, appVars, response, pc, inputConfig, record, minutesSinceSync, output,
                   sent, webhooks, woo, wooEvents, editRecent>>

\* A person changes a watched field: Airtable fires AUTOMATION 2 (lines 124-130).
HumanEdit(r) ==
    /\ nEdits < MaxEdits
    /\ table[r] # NoRecord
    /\ \E q \in (0..MaxStock) \ {table[r].stock} :
          table' = [table EXCEPT ![r].stock = q]
    /\ nEdits' = nEdits + 1
    /\ triggers' = triggers \cup {Trigger(r, "update", nEdits + 1)}
    /\ outcome' = [outcome EXCEPT ![nEdits + 1] = "pending"]
    /\ editRecent' = [editRecent EXCEPT ![nEdits + 1] = Recent(table[r].lastWooSync)]
    /\ UNCHANGED <<apiVars, appVars, response, pc, inputConfig, record, minutesSinceSync, output,
                   sent, webhooks, woo, wooEvents>>

\* A person ticks the checkbox that moves the record into the "Deleted" view:
\* Airtable fires AUTOMATION 3 (lines 132-137). The record stays in the table.
HumanMarkDeleted(r) ==
    /\ nEdits < MaxEdits
    /\ table[r] # NoRecord
    /\ nEdits' = nEdits + 1
    /\ triggers' = triggers \cup {Trigger(r, "delete", nEdits + 1)}
    /\ outcome' = [outcome EXCEPT ![nEdits + 1] = "pending"]
    /\ UNCHANGED <<apiVars, appVars, response, table, pc, inputConfig, record, minutesSinceSync,
                   output, sent, webhooks, woo, wooEvents, editRecent>>

\* A person removes the record from the table; triggers already fired for it
\* will find nothing (line 47).
HumanRemove(r) ==
    /\ nEdits < MaxEdits
    /\ table[r] # NoRecord
    /\ nEdits' = nEdits + 1
    /\ table' = [table EXCEPT ![r] = NoRecord]
    /\ outcome' = [outcome EXCEPT ![nEdits + 1] = "removed"]
    /\ UNCHANGED <<apiVars, appVars, response, triggers, pc, inputConfig, record, minutesSinceSync,
                   output, sent, webhooks, woo, wooEvents, editRecent>>

\* An automation whose recordId input variable was left unset runs the script
\* with no record id (line 43).
TriggerWithoutRecordId ==
    /\ nEdits < MaxEdits
    /\ nEdits' = nEdits + 1
    /\ \E type \in TriggerTypes :
          triggers' = triggers \cup {Trigger(NoId, type, nEdits + 1)}
    /\ outcome' = [outcome EXCEPT ![nEdits + 1] = "pending"]
    /\ UNCHANGED <<apiVars, appVars, response, table, pc, inputConfig, record, minutesSinceSync,
                   output, sent, webhooks, woo, wooEvents, editRecent>>

\* Time passes: every stored timestamp gets one tick older.
Tick ==
    /\ table' = [r \in RecordIds |->
                    [table[r] EXCEPT !.lastWooSync = Older(table[r].lastWooSync)]]
    /\ record' = [record EXCEPT !.lastWooSync = Older(record.lastWooSync)]
    /\ UNCHANGED <<apiVars, appVars, response, triggers, pc, inputConfig, minutesSinceSync, output,
                   sent, webhooks, woo, wooEvents, nEdits, outcome, editRecent>>

\* ---- one run of the script, lines 9-110 ----

Note(e, what) == IF e = 0 THEN outcome ELSE [outcome EXCEPT ![e] = what]

\* Lines 10-12 and 43, 107-110: read the inputs; without a record id the run ends.
RunStart(t) ==
    /\ pc \in {"idle", "done"}
    /\ t \in triggers
    /\ triggers' = triggers \ {t}
    /\ inputConfig' = t
    /\ record' = NoRecord
    /\ minutesSinceSync' = NoSync
    /\ sent' = <<>>
    /\ response' = "none"
    /\ IF t.recordId # NoId
       THEN /\ pc' = "select"
            /\ output' = NoOutput
            /\ outcome' = outcome
       ELSE /\ pc' = "done"
            /\ output' = SetOutput(NoOutput, "status", "no_record_id")
            /\ outcome' = Note(t.edit, "no_record_id")
    /\ UNCHANGED <<apiVars, appVars, table, webhooks, woo, wooEvents, nEdits, editRecent>>

\* Variant of the record lookup that reports a missing record and goes on.
RunSelect_fallthrough ==
    /\ pc = "select"
    /\ record' = table[inputConfig.recordId]
    /\ pc' = "check"
    /\ IF table[inputConfig.recordId] # NoRecord
       THEN UNCHANGED <<output, outcome>>
       ELSE /\ output' = SetOutput(output, "status", "record_not_found")
            /\ outcome' = Note(inputConfig.edit, "record_not_found")
    /\ UNCHANGED <<apiVars, appVars, response, table, triggers, inputConfig, minutesSinceSync, sent,
                   webhooks, woo, wooEvents, nEdits, editRecent>>

\* Lines 45-47 and 103-106: fetch the record.
RunSelect ==
    /\ pc = "select"
    /\ record' = table[inputConfig.recordId]
    /\ IF table[inputConfig.recordId] # NoRecord
       THEN /\ pc' = "check"
            /\ UNCHANGED <<output, outcome>>
       ELSE /\ pc' = "done"
            /\ output' = SetOutput(output, "status", "record_not_found")
            /\ outcome' = Note(inputConfig.edit, "record_not_found")
    /\ UNCHANGED <<apiVars, appVars, response, table, triggers, inputConfig, minutesSinceSync, sent,
                   webhooks, woo, wooEvents, nEdits, editRecent>>

\* Variant of the skip that puts the skipped change back for a later run.
RunCheck_retry ==
    /\ pc = "check"
    /\ minutesSinceSync' = record.lastWooSync
    /\ IF shouldSync(inputConfig.triggerType, record.lastWooSync)
       THEN /\ pc' = "fetch"
            /\ UNCHANGED <<output, outcome, triggers>>
       ELSE /\ pc' = "done"
            /\ output' = SetOutput(output, "status", "skipped")
            /\ outcome' = Note(inputConfig.edit, "skipped")
            /\ triggers' = triggers \cup {inputConfig}
    /\ UNCHANGED <<apiVars, appVars, response, table, inputConfig, record, sent, webhooks, woo,
                   wooEvents, nEdits, editRecent>>

\* Lines 49-54: shouldSync, and the skip.
RunCheck ==
    /\ pc = "check"
    /\ minutesSinceSync' = record.lastWooSync
    /\ IF shouldSync(inputConfig.triggerType, record.lastWooSync)
       THEN /\ pc' = "fetch"
            /\ UNCHANGED <<output, outcome>>
       ELSE /\ pc' = "done"
            /\ output' = SetOutput(output, "status", "skipped")
            /\ outcome' = Note(inputConfig.edit, "skipped")
    /\ UNCHANGED <<apiVars, appVars, response, table, triggers, inputConfig, record, sent, webhooks,
                   woo, wooEvents, nEdits, editRecent>>

\* The outputs the script sets after the fetch (lines 86-101): answer is an
\* ok response, a response with an error status, or an exception of fetch.
FetchOutput(out, answer) ==
    CASE answer = "ok" ->
           SetOutput(SetOutput(out, "status", "success"), "response", "result")
      [] answer = "not_ok" ->
           SetOutput(SetOutput(out, "status", "error"), "error", "response text")
      [] OTHER ->
           SetOutput(SetOutput(out, "status", "error"), "error", "exception")

\* Variant of the send that tries once more after a failed POST.
RunFetch_retry ==
    /\ pc = "fetch"
    /\ Len(sent) < 2
    /\ LET post == WebhookRequest(inputConfig.triggerType, record) IN
       /\ sent' = Append(sent, post)
       /\ \E answer \in {"ok", "not_ok", "throw"} :
             /\ response' = answer
             /\ output' = FetchOutput(output, answer)
             /\ webhooks' = IF answer = "ok" THEN webhooks \cup {post.body} ELSE webhooks
             /\ pc' = IF answer = "ok" \/ Len(sent) = 1 THEN "done" ELSE "fetch"
    /\ outcome' = Note(inputConfig.edit, "forwarded")
    /\ UNCHANGED <<apiVars, appVars, table, triggers, inputConfig, record, minutesSinceSync, woo,
                   wooEvents, nEdits, editRecent>>

\* Variant of the send that stamps the record it has just forwarded.
RunFetch_stamps ==
    /\ pc = "fetch"
    /\ LET post == WebhookRequest(inputConfig.triggerType, record) IN
       /\ sent' = Append(sent, post)
       /\ \E answer \in {"ok", "not_ok", "throw"} :
             /\ response' = answer
             /\ output' = FetchOutput(output, answer)
             /\ webhooks' = IF answer = "ok" THEN webhooks \cup {post.body} ELSE webhooks
    /\ table' = [r \in RecordIds |->
                    IF r = record.id /\ table[r] # NoRecord
                    THEN [table[r] EXCEPT !.lastWooSync = 0] ELSE table[r]]
    /\ pc' = "done"
    /\ outcome' = Note(inputConfig.edit, "forwarded")
    /\ UNCHANGED <<apiVars, appVars, triggers, inputConfig, record, minutesSinceSync, woo,
                   wooEvents, nEdits, editRecent>>

\* Lines 55-101: build the payload, POST it, set the outputs from the response.
\* The endpoint answers ok, answers with an error status, or the fetch throws.
RunFetch ==
    /\ pc = "fetch"
    /\ LET post == WebhookRequest(inputConfig.triggerType, record) IN
       /\ sent' = Append(sent, post)
       /\ \E answer \in {"ok", "not_ok", "throw"} :
             /\ response' = answer
             /\ output' = FetchOutput(output, answer)
             /\ webhooks' = IF answer = "ok" THEN webhooks \cup {post.body} ELSE webhooks
    /\ pc' = "done"
    /\ outcome' = Note(inputConfig.edit, "forwarded")
    /\ UNCHANGED <<apiVars, appVars, table, triggers, inputConfig, record, minutesSinceSync, woo,
                   wooEvents, nEdits, editRecent>>

Run == (\E t \in triggers : RunStart(t)) \/ RunSelect \/ RunCheck \/ RunFetch

\* ---- the webhook companion and the WooCommerce write-back ----

\* The companion mirrors a forwarded change into WooCommerce, which announces
\* its product change in turn.
CompanionMirror(w) ==
    /\ w \in webhooks
    /\ webhooks' = webhooks \ {w}
    /\ IF w.type = "record.deleted"
       THEN /\ woo' = [woo EXCEPT ![w.record.id] = 0]
            /\ wooEvents' = wooEvents
       ELSE /\ woo' = [woo EXCEPT ![w.record.id] = w.record.fields["Stock Quantity"]]
            /\ wooEvents' = wooEvents \cup {w.record.id}
    /\ UNCHANGED <<apiVars, appVars, response, table, triggers, pc, inputConfig, record,
                   minutesSinceSync, output, sent, nEdits, outcome, editRecent>>

\* The WooCommerce-to-Airtable write-back: it writes the stock and stamps
\* "Last WooCommerce Sync" with the current time. Stock Quantity is a watched
\* field, so Airtable fires AUTOMATION 2 for the write; whether it also does
\* so for a write that leaves the value as it was is left open.
WooWriteBack(r) ==
    /\ r \in wooEvents
    /\ wooEvents' = wooEvents \ {r}
    /\ IF table[r] # NoRecord
       THEN /\ table' = [table EXCEPT ![r].stock = woo[r], ![r].lastWooSync = 0]
            /\ \E fires \in {TRUE, table[r].stock # woo[r]} :
                  triggers' = IF fires THEN triggers \cup {Trigger(r, "update", 0)}
                              ELSE triggers
       ELSE UNCHANGED <<table, triggers>>
    /\ UNCHANGED <<apiVars, appVars, response, pc, inputConfig, record, minutesSinceSync, output,
                   sent, webhooks, woo, nEdits, outcome, editRecent>>

Companion == \E w \in webhooks : CompanionMirror(w)
WriteBack == \E r \in RecordIds : WooWriteBack(r)

SyncNext ==
    \/ \E r \in RecordIds : HumanCreate(r)
    \/ \E r \in RecordIds : HumanEdit(r)
    \/ \E r \in RecordIds : HumanMarkDeleted(r)
    \/ \E r \in RecordIds : HumanRemove(r)
    \/ TriggerWithoutRecordId
    \/ Tick
    \/ \E t \in triggers : RunStart(t)
    \/ RunSelect
    \/ RunCheck
    \/ RunFetch
    \/ Companion
    \/ WriteBack

(***************************************************************************)
(*        PART 2: the inventory server, complete-deployment-guide.md       *)
(***************************************************************************)

\* ---- bounds of the model ----
MaxUsers == 1           \* e-mail addresses 1..MaxUsers
MaxBarcodes == 1        \* barcodes 1..MaxBarcodes
MaxBulk == 2            \* longest barcodes list of a bulk request
MaxFailures == 1        \* calls to Airtable or to a provider that fail

\* Two requests are in flight, served one await at a time in any interleaving:
\* the overlap of two clients (two scanners).
Requests == {1, 2}
Emails == 1..MaxUsers
\* The address of an account whose Users record has been removed; tokens
\* issued to it (30 days, lines 919-923, 963-967) still verify.
FormerEmail == MaxUsers + 1
Barcodes == 1..MaxBarcodes

\* findRecordByField's null (line 837, 840)
NoUser == [id |-> 0, Email |-> 0, TotalScans |-> 0]
NoProduct == [id |-> 0, Barcode |-> 0]

\* The routes (lines 894-1535) and their middleware.
PublicRoutes == {"register", "login"}
ProductRoutes == {"getProduct", "postProduct", "deleteProduct", "bulk"}
Routes == PublicRoutes \cup ProductRoutes

NoTokenSent == [kind |-> "none", email |-> 0]
Tokens == {NoTokenSent, [kind |-> "bad", email |-> 0]}
             \cup {[kind |-> "valid", email |-> e] : e \in Emails \cup {FormerEmail}}

BulkLists == UNION {[1..n -> Barcodes] : n \in 0..MaxBulk}

NoRequest ==
    [route |-> "none", token |-> NoTokenSent, email |-> 0, password |-> "none",
     barcode |-> 0, barcodes |-> <<>>, provider |-> "none", page |-> 0, limit |-> 0]
\* matched, failures and called are history: the ids of the records that had
\* the looked-up key when the handler's lookup ran, the barcodes of a bulk
\* request for which a provider lookup or the create failed, and the provider
\* requests (axios.get) made for a lookup request with what each answered.
NoLocal ==
    [user |-> NoUser, existing |-> NoProduct, product |-> NoProduct,
     results |-> <<>>, errors |-> <<>>, matched |-> {}, failures |-> <<>>,
     productData |-> "null", todo |-> <<>>, called |-> <<>>,
     existingSettings |-> [id |-> 0, UserEmail |-> 0]]
NoResponse == [status |-> 0, body |-> "none"]

\* The requests a client can send, one per route.
RequestsOf(route) ==
    CASE route = "register" ->
           {[NoRequest EXCEPT !.route = route, !.email = e] :
               e \in Emails \cup {FormerEmail}}
      [] route = "login" ->
           {[NoRequest EXCEPT !.route = route, !.email = e, !.password = pw] :
               e \in Emails \cup {FormerEmail}, pw \in {"right", "wrong"}}
      [] route = "bulk" ->
           {[NoRequest EXCEPT !.route = route, !.token = t, !.barcodes = bs] :
               t \in Tokens, bs \in BulkLists}
      [] OTHER ->
           {[NoRequest EXCEPT !.route = route, !.token = t, !.barcode = b] :
               t \in Tokens, b \in Barcodes}

ApiInit ==
    /\ users = {[id |-> e, Email |-> e, TotalScans |-> 0] : e \in Emails}
    /\ products = {}
    /\ history = <<>>
    /\ nextId = FormerEmail + 1
    /\ req = [p \in Requests |-> NoRequest]
    /\ rpc = [p \in Requests |-> "new"]
    /\ local = [p \in Requests |-> NoLocal]
    /\ resp = [p \in Requests |-> NoResponse]
    /\ ops = [p \in Requests |-> {}]
    /\ failed = [p \in Requests |-> FALSE]
    /\ nFailures = 0
    /\ env = {}
    /\ settings = {}

\* ---- helper functions, lines 819-864 ----

\* findRecordByField (lines 828-842): the records it can return. Airtable
\* gives the matching records in no promised order and maxRecords keeps one;
\* a failed query is caught and answered null, like no match.
findRecordByField(tbl, null, field, value, works) ==
    LET matches == {rec \in tbl : rec[field] = value}
    IN IF works /\ matches # {} THEN matches ELSE {null}

Respond(p, status, body) ==
    /\ resp' = [resp EXCEPT ![p] = [status |-> status, body |-> body]]
    /\ rpc' = [rpc EXCEPT ![p] = "done"]

Call(p, op) == ops' = [ops EXCEPT ![p] = @ \cup {op}]
\* The same, with a note of the call's failure.
CallResult(p, op, works) ==
    ops' = [ops EXCEPT ![p] = @ \cup {op} \cup (IF works THEN {} ELSE {op \o " failed"})]
Ids(tbl, field, value) == {rec.id : rec \in {x \in tbl : x[field] = value}}
Fails(p, works) == failed' = [failed EXCEPT ![p] = @ \/ ~works]

\* A call to Airtable or to a lookup provider works or fails.
CallOutcomes == IF nFailures < MaxFailures THEN BOOLEAN ELSE {TRUE}
Outcome(works) == nFailures' = IF works THEN nFailures ELSE nFailures + 1

\* A client sends a request; requests are numbered in the order they arrive.
Send(p) ==
    /\ rpc[p] = "new"
    /\ \A q \in Requests : q < p => rpc[q] # "new"
    /\ \E route \in Routes : \E r \in RequestsOf(route) :
          /\ req' = [req EXCEPT ![p] = r]
          /\ rpc' = [rpc EXCEPT ![p] = IF route \in PublicRoutes THEN "run" ELSE "auth"]
    /\ UNCHANGED <<syncVars, appVars, env, settings, users, products, history, nextId, local,
                   resp, ops, failed, nFailures>>

\* A client that waits for the answer to each request before it sends the next.
Alone(p) == \A q \in Requests \ {p} : rpc[q] \in {"new", "done"}
SendAlone(p) == Alone(p) /\ Send(p)

\* Variant of authenticateToken that calls next() without the user check.
Authenticate_noUserCheck(p) ==
    /\ rpc[p] = "auth"
    /\ CASE req[p].token.kind = "none" ->
              /\ Respond(p, 401, "Access token required")
              /\ UNCHANGED <<local, ops, nFailures>>
         [] req[p].token.kind = "bad" ->
              /\ Respond(p, 403, "Invalid token")
              /\ UNCHANGED <<local, ops, nFailures>>
         [] OTHER ->
              \E works \in CallOutcomes :
              \E user \in findRecordByField(users, NoUser, "Email", req[p].token.email, works) :
                 /\ Call(p, "Users.select")
                 /\ Outcome(works)
                 /\ local' = [local EXCEPT ![p].user = user]
                 /\ rpc' = [rpc EXCEPT ![p] = "run"]
                 /\ UNCHANGED resp
    /\ UNCHANGED <<syncVars, appVars, env, settings, users, products, history, nextId, req, failed>>

\* authenticateToken, lines 867-889.
Authenticate(p) ==
    /\ rpc[p] = "auth"
    /\ CASE req[p].token.kind = "none" ->
              /\ Respond(p, 401, "Access token required")
              /\ UNCHANGED <<local, ops, nFailures>>
         [] req[p].token.kind = "bad" ->
              /\ Respond(p, 403, "Invalid token")
              /\ UNCHANGED <<local, ops, nFailures>>
         [] OTHER ->
              \E works \in CallOutcomes :
              \E user \in findRecordByField(users, NoUser, "Email", req[p].token.email, works) :
                 /\ Call(p, "Users.select")
                 /\ Outcome(works)
                 /\ IF user = NoUser
                    THEN /\ Respond(p, 403, "User not found")
                         /\ UNCHANGED local
                    ELSE /\ local' = [local EXCEPT ![p].user = user]
                         /\ rpc' = [rpc EXCEPT ![p] = "run"]
                         /\ UNCHANGED resp
    /\ UNCHANGED <<syncVars, appVars, env, settings, users, products, history, nextId, req, failed>>


\* ---- POST /api/auth/register, lines 894-938 ----

\* Variant of the register lookup that does not act on what it found.
RegisterFind_noCheck(p) ==
    /\ rpc[p] = "run" /\ req[p].route = "register"
    /\ \E works \in CallOutcomes :
          /\ CallResult(p, "Users.select", works)
          /\ Outcome(works)
          /\ Fails(p, works)
          /\ local' = [local EXCEPT ![p].matched = Ids(users, "Email", req[p].email)]
          /\ rpc' = [rpc EXCEPT ![p] = "create"]
    /\ UNCHANGED <<syncVars, appVars, env, settings, users, products, history, nextId, req, resp>>

RegisterFind(p) ==
    /\ rpc[p] = "run" /\ req[p].route = "register"
    /\ \E works \in CallOutcomes :
       \E existingUser \in findRecordByField(users, NoUser, "Email", req[p].email, works) :
          /\ CallResult(p, "Users.select", works)
          /\ Outcome(works)
          /\ Fails(p, works)
          /\ local' = [local EXCEPT ![p].matched = Ids(users, "Email", req[p].email)]
          /\ IF existingUser # NoUser
             THEN Respond(p, 400, "User already exists")
             ELSE /\ rpc' = [rpc EXCEPT ![p] = "create"]
                  /\ UNCHANGED resp
    /\ UNCHANGED <<syncVars, appVars, env, settings, users, products, history, nextId, req>>

RegisterCreate(p) ==
    /\ rpc[p] = "create" /\ req[p].route = "register"
    /\ Call(p, "Users.create")
    /\ \E works \in CallOutcomes :
          /\ Outcome(works)
          /\ Fails(p, works)
          /\ IF works
             THEN LET user == [id |-> nextId, Email |-> req[p].email, TotalScans |-> 0]
                  IN /\ users' = users \cup {user}
                     /\ nextId' = nextId + 1
                     /\ local' = [local EXCEPT ![p].user = user]
                     /\ Respond(p, 200, "token")
             ELSE /\ Respond(p, 500, "error.message")
                  /\ UNCHANGED <<users, nextId, local>>
    /\ UNCHANGED <<syncVars, appVars, env, settings, products, history, req>>

\* ---- POST /api/auth/login, lines 941-982 ----

\* Variant of the login that tells an unknown address from a wrong password.
LoginFind_telling(p) ==
    /\ rpc[p] = "run" /\ req[p].route = "login"
    /\ \E works \in CallOutcomes :
       \E user \in findRecordByField(users, NoUser, "Email", req[p].email, works) :
          /\ CallResult(p, "Users.select", works)
          /\ Outcome(works)
          /\ Fails(p, works)
          /\ IF user = NoUser
             THEN /\ Respond(p, 404, "User not found")
                  /\ local' = [local EXCEPT ![p].matched = Ids(users, "Email", req[p].email)]
             ELSE IF req[p].password # "right"
             THEN /\ Respond(p, 401, "Invalid credentials")
                  /\ local' = [local EXCEPT ![p].matched = Ids(users, "Email", req[p].email)]
             ELSE /\ local' = [local EXCEPT ![p].user = user,
                                            ![p].matched = Ids(users, "Email", req[p].email)]
                  /\ rpc' = [rpc EXCEPT ![p] = "touch"]
                  /\ UNCHANGED resp
    /\ UNCHANGED <<syncVars, appVars, env, settings, users, products, history, nextId, req>>

\* Lines 943-955: find the user, then bcrypt.compare (a computation on the
\* request and the record found, that touches nothing else).
LoginFind(p) ==
    /\ rpc[p] = "run" /\ req[p].route = "login"
    /\ \E works \in CallOutcomes :
       \E user \in findRecordByField(users, NoUser, "Email", req[p].email, works) :
          /\ CallResult(p, "Users.select", works)
          /\ Outcome(works)
          /\ Fails(p, works)
          /\ IF user = NoUser \/ req[p].password # "right"
             THEN /\ Respond(p, 401, "Invalid credentials")
                  /\ local' = [local EXCEPT ![p].matched = Ids(users, "Email", req[p].email)]
             ELSE /\ local' = [local EXCEPT ![p].user = user,
                                            ![p].matched = Ids(users, "Email", req[p].email)]
                  /\ rpc' = [rpc EXCEPT ![p] = "touch"]
                  /\ UNCHANGED resp
    /\ UNCHANGED <<syncVars, appVars, env, settings, users, products, history, nextId, req>>

\* Lines 957-977: update LastActive, then sign and send the token.
LoginTouch(p) ==
    /\ rpc[p] = "touch" /\ req[p].route = "login"
    /\ Call(p, "Users.update")
    /\ \E works \in CallOutcomes :
          /\ Outcome(works)
          /\ Fails(p, works)
          /\ IF works THEN Respond(p, 200, "token") ELSE Respond(p, 500, "error.message")
    /\ UNCHANGED <<syncVars, appVars, env, settings, users, products, history, nextId, req, local>>

\* ---- GET /api/products/:barcode, lines 1156-1168 ----

GetProduct(p) ==
    /\ rpc[p] = "run" /\ req[p].route = "getProduct"
    /\ \E works \in CallOutcomes :
       \E product \in findRecordByField(products, NoProduct, "Barcode", req[p].barcode, works) :
          /\ CallResult(p, "Products.select", works)
          /\ Outcome(works)
          /\ Fails(p, works)
          /\ local' = [local EXCEPT ![p].product = product,
                                    ![p].matched = Ids(products, "Barcode", req[p].barcode)]
          /\ IF product = NoProduct
             THEN Respond(p, 404, "Product not found")
             ELSE Respond(p, 200, "product")
    /\ UNCHANGED <<syncVars, appVars, env, settings, users, products, history, nextId, req>>

\* ---- POST /api/products, lines 1171-1234 ----

\* Line 1181: check if the product exists.
PostFind(p) ==
    /\ rpc[p] = "run" /\ req[p].route = "postProduct"
    /\ \E works \in CallOutcomes :
       \E existingProduct \in
             findRecordByField(products, NoProduct, "Barcode", req[p].barcode, works) :
          /\ CallResult(p, "Products.select", works)
          /\ Outcome(works)
          /\ Fails(p, works)
          /\ local' = [local EXCEPT ![p].existing = existingProduct,
                                    ![p].matched = Ids(products, "Barcode", req[p].barcode)]
          /\ rpc' = [rpc EXCEPT ![p] = "write"]
    /\ UNCHANGED <<syncVars, appVars, env, settings, users, products, history, nextId, req, resp>>

\* Variant of the write that looks the barcode up again as it writes (an
\* atomic create-or-update).
PostWrite_atomic(p) ==
    /\ rpc[p] = "write" /\ req[p].route = "postProduct"
    /\ \E works \in CallOutcomes :
       \E found \in findRecordByField(products, NoProduct, "Barcode", req[p].barcode, TRUE) :
          /\ Outcome(works)
          /\ Fails(p, works)
          /\ Call(p, IF found # NoProduct THEN "Products.update" ELSE "Products.create")
          /\ IF works
             THEN LET product == IF found # NoProduct THEN found
                                 ELSE [id |-> nextId, Barcode |-> req[p].barcode]
                  IN /\ products' = products \cup {product}
                     /\ nextId' = IF found # NoProduct THEN nextId ELSE nextId + 1
                     /\ local' = [local EXCEPT ![p].product = product]
                     /\ rpc' = [rpc EXCEPT ![p] = "log"]
                     /\ UNCHANGED resp
             ELSE /\ Respond(p, 500, "error.message")
                  /\ UNCHANGED <<products, nextId, local>>
    /\ UNCHANGED <<syncVars, appVars, env, settings, users, history, req>>

\* Lines 1183-1210: update the product found, or create one. Updating a
\* record that is no longer in the table is an Airtable error.
PostWrite(p) ==
    /\ rpc[p] = "write" /\ req[p].route = "postProduct"
    /\ \E works \in CallOutcomes :
          /\ Outcome(works)
          /\ Fails(p, works /\ (local[p].existing = NoProduct \/ local[p].existing \in products))
          /\ IF local[p].existing # NoProduct
             THEN /\ Call(p, "Products.update")
                  /\ IF works /\ local[p].existing \in products
                     THEN /\ local' = [local EXCEPT ![p].product = local[p].existing]
                          /\ rpc' = [rpc EXCEPT ![p] = "log"]
                          /\ UNCHANGED resp
                     ELSE /\ Respond(p, 500, "error.message")
                          /\ UNCHANGED local
                  /\ UNCHANGED <<products, nextId>>
             ELSE /\ Call(p, "Products.create")
                  /\ IF works
                     THEN LET product == [id |-> nextId, Barcode |-> req[p].barcode]
                          IN /\ products' = products \cup {product}
                             /\ nextId' = nextId + 1
                             /\ local' = [local EXCEPT ![p].product = product]
                             /\ rpc' = [rpc EXCEPT ![p] = "log"]
                             /\ UNCHANGED resp
                     ELSE /\ Respond(p, 500, "error.message")
                          /\ UNCHANGED <<products, nextId, local>>
    /\ UNCHANGED <<syncVars, appVars, env, settings, users, history, req>>

\* Variant of the log that goes on when the ScanHistory write fails.
PostLog_bestEffort(p) ==
    /\ rpc[p] = "log" /\ req[p].route = "postProduct"
    /\ Call(p, "ScanHistory.create")
    /\ \E works \in CallOutcomes :
          /\ Outcome(works)
          /\ Fails(p, works)
          /\ history' = IF works
                        THEN Append(history,
                               [User |-> local[p].user.id, Barcode |-> local[p].product.Barcode,
                                Action |-> IF local[p].existing # NoProduct
                                           THEN "update" ELSE "scan",
                                Request |-> p])
                        ELSE history
          /\ rpc' = [rpc EXCEPT ![p] = "count"]
    /\ UNCHANGED <<syncVars, appVars, env, settings, users, products, nextId, req, local, resp>>

\* Lines 1212-1221: log the scan.
PostLog(p) ==
    /\ rpc[p] = "log" /\ req[p].route = "postProduct"
    /\ Call(p, "ScanHistory.create")
    /\ \E works \in CallOutcomes :
          /\ Outcome(works)
          /\ Fails(p, works)
          /\ IF works
             THEN /\ history' = Append(history,
                       [User |-> local[p].user.id, Barcode |-> local[p].product.Barcode,
                        Action |-> IF local[p].existing # NoProduct THEN "update" ELSE "scan",
                        Request |-> p])
                  /\ rpc' = [rpc EXCEPT ![p] = "count"]
                  /\ UNCHANGED resp
             ELSE /\ Respond(p, 500, "error.message")
                  /\ UNCHANGED history
    /\ UNCHANGED <<syncVars, appVars, env, settings, users, products, nextId, req, local>>

\* Lines 1223-1229: TotalScans := (req.user.TotalScans || 0) + 1, with the
\* req.user the middleware read, then answer with the product.
PostCount(p) ==
    /\ rpc[p] = "count" /\ req[p].route = "postProduct"
    /\ Call(p, "Users.update")
    /\ \E works \in CallOutcomes :
          LET present == \E u \in users : u.id = local[p].user.id
          IN /\ Outcome(works)
             /\ Fails(p, works /\ present)
             /\ IF works /\ present
                THEN /\ users' = {IF u.id = local[p].user.id
                                  THEN [u EXCEPT !.TotalScans = local[p].user.TotalScans + 1]
                                  ELSE u : u \in users}
                     /\ Respond(p, 200, "product")
                ELSE /\ Respond(p, 500, "error.message")
                     /\ UNCHANGED users
    /\ UNCHANGED <<syncVars, appVars, env, settings, products, history, nextId, req, local>>

\* ---- DELETE /api/products/:barcode, lines 1263-1287 ----

DeleteFind(p) ==
    /\ rpc[p] = "run" /\ req[p].route = "deleteProduct"
    /\ \E works \in CallOutcomes :
       \E product \in findRecordByField(products, NoProduct, "Barcode", req[p].barcode, works) :
          /\ CallResult(p, "Products.select", works)
          /\ Outcome(works)
          /\ Fails(p, works)
          /\ local' = [local EXCEPT ![p].existing = product,
                                    ![p].matched = Ids(products, "Barcode", req[p].barcode)]
          /\ IF product = NoProduct
             THEN Respond(p, 404, "Product not found")
             ELSE /\ rpc' = [rpc EXCEPT ![p] = "destroy"]
                  /\ UNCHANGED resp
    /\ UNCHANGED <<syncVars, appVars, env, settings, users, products, history, nextId, req>>

DeleteDestroy(p) ==
    /\ rpc[p] = "destroy" /\ req[p].route = "deleteProduct"
    /\ Call(p, "Products.destroy")
    /\ \E works \in CallOutcomes :
          /\ Outcome(works)
          /\ Fails(p, works /\ local[p].existing \in products)
          /\ IF works /\ local[p].existing \in products
             THEN /\ products' = products \ {local[p].existing}
                  /\ rpc' = [rpc EXCEPT ![p] = "log"]
                  /\ UNCHANGED resp
             ELSE /\ Respond(p, 500, "error.message")
                  /\ UNCHANGED products
    /\ UNCHANGED <<syncVars, appVars, env, settings, users, history, nextId, req, local>>

DeleteLog(p) ==
    /\ rpc[p] = "log" /\ req[p].route = "deleteProduct"
    /\ Call(p, "ScanHistory.create")
    /\ \E works \in CallOutcomes :
          /\ Outcome(works)
          /\ Fails(p, works)
          /\ IF works
             THEN /\ history' = Append(history,
                       [User |-> local[p].user.id, Barcode |-> req[p].barcode,
                        Action |-> "delete", Request |-> p])
                  /\ Respond(p, 200, "Product deleted successfully")
             ELSE /\ Respond(p, 500, "error.message")
                  /\ UNCHANGED history
    /\ UNCHANGED <<syncVars, appVars, env, settings, users, products, nextId, req, local>>

\* ---- POST /api/products/bulk, lines 1425-1481 ----

\* One turn of the loop (lines 1431-1470): look the barcode up at the
\* providers (lines 1023-1107; a provider error is caught there and reads as
\* not found), then create the product, with no look at the table first.
BulkItem(p) ==
    /\ rpc[p] = "run" /\ req[p].route = "bulk"
    /\ LET i == Len(local[p].results) + Len(local[p].errors) + 1 IN
       /\ i <= Len(req[p].barcodes)
       /\ Call(p, "Products.create")
       /\ \E lookupWorks \in BOOLEAN : \E works \in BOOLEAN :
             /\ nFailures' = nFailures + (IF lookupWorks THEN 0 ELSE 1)
                                        + (IF works THEN 0 ELSE 1)
             /\ nFailures' <= MaxFailures
             /\ Fails(p, lookupWorks /\ works)
             /\ LET noted == IF lookupWorks /\ works THEN local[p].failures
                             ELSE Append(local[p].failures, req[p].barcodes[i])
                IN IF works
                   THEN LET product == [id |-> nextId, Barcode |-> req[p].barcodes[i]]
                        IN /\ products' = products \cup {product}
                           /\ nextId' = nextId + 1
                           /\ local' = [local EXCEPT ![p].results = Append(@, product),
                                                     ![p].failures = noted]
                   ELSE /\ local' = [local EXCEPT
                                       ![p].errors = Append(@, req[p].barcodes[i]),
                                       ![p].failures = noted]
                        /\ UNCHANGED <<products, nextId>>
    /\ UNCHANGED <<syncVars, appVars, env, settings, users, history, req, rpc, resp>>

\* Lines 1472-1477: the loop is over.
BulkRespond(p) ==
    /\ rpc[p] = "run" /\ req[p].route = "bulk"
    /\ Len(local[p].results) + Len(local[p].errors) = Len(req[p].barcodes)
    /\ Respond(p, 200, "bulk result")
    /\ UNCHANGED <<syncVars, appVars, env, settings, users, products, history, nextId, req,
                   local, ops, failed, nFailures>>

\* ---- the query routes: GET /api/products and POST /api/products/lookup ----

\* bounds of the query requests
MaxPage == 2            \* page ranges over 1..MaxPage
MaxLimit == 2           \* limit ranges over 1..MaxLimit

QueryRoutes == {"listProducts", "lookup"}
\* The provider names of the lookup request (lines 992-1010); "other" is
\* any name the switch does not list.
ProviderNames == {"openFood", "upcItemDB", "barcodeLookup", "all", "other"}
\* process.env keys read by the lookup functions (lines 1048, 1078)
Keys == {"UPC_ITEMDB_KEY", "BARCODE_LOOKUP_KEY"}
\* What a provider's HTTP API does with a request: it knows the product, it
\* does not, or the request fails.
Answers == {"product", "nothing", "error"}

QueryRequestsOf(route) ==
    CASE route = "listProducts" ->
           {[NoRequest EXCEPT !.route = route, !.token = t, !.page = pg, !.limit = n] :
               t \in Tokens, pg \in 1..MaxPage, n \in 1..MaxLimit}
      [] OTHER ->
           {[NoRequest EXCEPT !.route = route, !.token = t, !.barcode = b, !.provider = pr] :
               t \in Tokens, b \in Barcodes, pr \in ProviderNames}

\* The server with Products records in the table and any configuration of
\* the provider keys.
QueryInit ==
    /\ users = {[id |-> e, Email |-> e, TotalScans |-> 0] : e \in Emails}
    /\ products \in SUBSET {[id |-> FormerEmail + b, Barcode |-> b] : b \in Barcodes}
    /\ history = <<>>
    /\ nextId = FormerEmail + MaxBarcodes + 1
    /\ req = [p \in Requests |-> NoRequest]
    /\ rpc = [p \in Requests |-> "new"]
    /\ local = [p \in Requests |-> NoLocal]
    /\ resp = [p \in Requests |-> NoResponse]
    /\ ops = [p \in Requests |-> {}]
    /\ failed = [p \in Requests |-> FALSE]
    /\ nFailures = 0
    /\ env \in SUBSET Keys
    /\ settings = {}

\* A client sends a query request; the query handlers share no state, so the
\* requests are taken one after the other.
SendQuery(p) ==
    /\ rpc[p] = "new"
    /\ Alone(p)
    /\ \A q \in Requests : q < p => rpc[q] # "new"
    /\ \E route \in QueryRoutes : \E r \in QueryRequestsOf(route) :
          /\ req' = [req EXCEPT ![p] = r]
          /\ rpc' = [rpc EXCEPT ![p] = "auth"]
    /\ UNCHANGED <<syncVars, appVars, env, settings, users, products, history, nextId, local,
                   resp, ops, failed, nFailures>>

\* GET /api/products, lines 1112-1153. The filter is built in filterFormula
\* (lines 1116-1131), but the options of select() name filterByFormula in
\* shorthand (line 1138), an identifier declared nowhere: evaluating the
\* options throws a ReferenceError before any request to Airtable is made,
\* and the catch answers 500 (lines 1149-1152).
ListProducts(p) ==
    /\ rpc[p] = "run" /\ req[p].route = "listProducts"
    /\ Respond(p, 500, "filterByFormula is not defined")
    /\ UNCHANGED <<syncVars, appVars, env, settings, users, products, history, nextId, req,
                   local, ops, failed, nFailures>>

\* The lookup functions, lines 1023-1107: the product data returned (its
\* source, or "null"), and whether the provider was sent a request at all.
\* An error of the request is caught and reads as null.
lookupOpenFoodFacts(keys, answer) ==
    [requested |-> TRUE,
     data |-> IF answer = "product" THEN "Open Food Facts" ELSE "null"]

\* Variant of lookupUPCItemDB without the check of the key.
lookupUPCItemDB_noKeyCheck(keys, answer) ==
    [requested |-> TRUE,
     data |-> IF answer = "product" THEN "UPC ItemDB" ELSE "null"]

lookupUPCItemDB(keys, answer) ==
    IF "UPC_ITEMDB_KEY" \notin keys
    THEN [requested |-> FALSE, data |-> "null"]
    ELSE [requested |-> TRUE,
          data |-> IF answer = "product" THEN "UPC ItemDB" ELSE "null"]

lookupBarcodeLookup(keys, answer) ==
    IF "BARCODE_LOOKUP_KEY" \notin keys
    THEN [requested |-> FALSE, data |-> "null"]
    ELSE [requested |-> TRUE,
          data |-> IF answer = "product" THEN "Barcode Lookup" ELSE "null"]

lookup(fn, keys, answer) ==
    CASE fn = "lookupOpenFoodFacts" -> lookupOpenFoodFacts(keys, answer)
      [] fn = "lookupUPCItemDB" -> lookupUPCItemDB(keys, answer)
      [] fn = "lookupBarcodeLookup" -> lookupBarcodeLookup(keys, answer)

\* The switch of lines 992-1010: the lookup functions to call, in order.
LookupPlan(provider) ==
    CASE provider = "upcItemDB" -> <<"lookupUPCItemDB">>
      [] provider = "barcodeLookup" -> <<"lookupBarcodeLookup">>
      [] provider = "all" ->
           <<"lookupOpenFoodFacts", "lookupUPCItemDB", "lookupBarcodeLookup">>
      [] OTHER -> <<"lookupOpenFoodFacts">>

\* Lines 989-992: read the body and enter the switch.
LookupSwitch(p) ==
    /\ rpc[p] = "run" /\ req[p].route = "lookup"
    /\ local' = [local EXCEPT ![p].todo = LookupPlan(req[p].provider)]
    /\ rpc' = [rpc EXCEPT ![p] = "lookup"]
    /\ UNCHANGED <<syncVars, appVars, env, settings, users, products, history, nextId, req,
                   resp, ops, failed, nFailures>>

\* One await of the case taken: a || b || c goes on to the next function
\* only when the one before returned null.
LookupCall(p) ==
    /\ rpc[p] = "lookup" /\ local[p].todo # <<>>
    /\ \E answer \in Answers :
          LET fn == Head(local[p].todo)
              r == lookup(fn, env, answer)
          IN /\ local' = [local EXCEPT
                            ![p].productData = r.data,
                            ![p].todo = IF r.data # "null" THEN <<>> ELSE Tail(@),
                            ![p].called = IF r.requested
                                          THEN Append(@, [fn |-> fn, answer |-> answer])
                                          ELSE @]
             /\ Fails(p, ~(r.requested /\ answer = "error"))
    /\ UNCHANGED <<syncVars, appVars, env, settings, users, products, history, nextId, req,
                   rpc, resp, ops, nFailures>>

\* Lines 1012-1016: answer.
LookupRespond(p) ==
    /\ rpc[p] = "lookup" /\ local[p].todo = <<>>
    /\ IF local[p].productData # "null"
       THEN Respond(p, 200, "success: true")
       ELSE Respond(p, 200, "success: false")
    /\ UNCHANGED <<syncVars, appVars, env, settings, users, products, history, nextId, req,
                   local, ops, failed, nFailures>>

\* ---- the settings routes, lines 1486-1535 ----

SettingsRoutes == {"getSettings", "postSettings"}
\* findRecordByField's null for the Settings table
NoSettings == [id |-> 0, UserEmail |-> 0]

\* A client sends its settings requests one after the other.
SendSettings(p) ==
    /\ rpc[p] = "new"
    /\ Alone(p)
    /\ \A q \in Requests : q < p => rpc[q] # "new"
    /\ \E route \in SettingsRoutes : \E t \in Tokens :
          /\ req' = [req EXCEPT ![p] = [NoRequest EXCEPT !.route = route, !.token = t]]
          /\ rpc' = [rpc EXCEPT ![p] = "auth"]
    /\ UNCHANGED <<syncVars, appVars, env, settings, users, products, history, nextId, local, resp,
                   ops, failed, nFailures>>

\* GET /api/settings, lines 1486-1510: the select is made in the handler
\* itself, so its failure reaches the handler's catch.
GetSettings(p) ==
    /\ rpc[p] = "run" /\ req[p].route = "getSettings"
    /\ \E works \in CallOutcomes :
          /\ CallResult(p, "Settings.select", works)
          /\ Outcome(works)
          /\ Fails(p, works)
          /\ local' = [local EXCEPT
                         ![p].matched = Ids(settings, "UserEmail", local[p].user.Email)]
          /\ IF ~works THEN Respond(p, 500, "error.message")
             ELSE IF Ids(settings, "UserEmail", local[p].user.Email) # {}
             THEN Respond(p, 200, "settings record")
             ELSE Respond(p, 200, "default settings")
    /\ UNCHANGED <<syncVars, appVars, env, settings, users, products, history, nextId, req>>

\* POST /api/settings, line 1515: look for the user's record.
PostSettingsFind(p) ==
    /\ rpc[p] = "run" /\ req[p].route = "postSettings"
    /\ \E works \in CallOutcomes :
       \E existingSettings \in
             findRecordByField(settings, NoSettings, "UserEmail", local[p].user.Email, works) :
          /\ CallResult(p, "Settings.select", works)
          /\ Outcome(works)
          /\ Fails(p, works)
          /\ local' = [local EXCEPT
                         ![p].existingSettings = existingSettings,
                         ![p].matched = Ids(settings, "UserEmail", local[p].user.Email)]
          /\ rpc' = [rpc EXCEPT ![p] = "write"]
    /\ UNCHANGED <<syncVars, appVars, env, settings, users, products, history, nextId, req, resp>>

\* Lines 1524-1531: update the record found, or create one.
PostSettingsWrite(p) ==
    /\ rpc[p] = "write" /\ req[p].route = "postSettings"
    /\ \E works \in CallOutcomes :
          /\ Outcome(works)
          /\ Fails(p, works)
          /\ IF local[p].existingSettings # NoSettings
             THEN /\ CallResult(p, "Settings.update", works)
                  /\ IF works THEN Respond(p, 200, "settings")
                     ELSE Respond(p, 500, "error.message")
                  /\ UNCHANGED <<settings, nextId>>
             ELSE /\ CallResult(p, "Settings.create", works)
                  /\ IF works
                     THEN /\ settings' = settings
                               \cup {[id |-> nextId, UserEmail |-> local[p].user.Email]}
                          /\ nextId' = nextId + 1
                          /\ Respond(p, 200, "settings")
                     ELSE /\ Respond(p, 500, "error.message")
                          /\ UNCHANGED <<settings, nextId>>
    /\ UNCHANGED <<syncVars, appVars, env, users, products, history, req, local>>

SettingsNext ==
    \/ \E p \in Requests : SendSettings(p)
    \/ \E p \in Requests : Authenticate(p)
    \/ \E p \in Requests : GetSettings(p)
    \/ \E p \in Requests : PostSettingsFind(p)
    \/ \E p \in Requests : PostSettingsWrite(p)

QueryNext ==
    \/ \E p \in Requests : SendQuery(p)
    \/ \E p \in Requests : Authenticate(p)
    \/ \E p \in Requests : ListProducts(p)
    \/ \E p \in Requests : LookupSwitch(p)
    \/ \E p \in Requests : LookupCall(p)
    \/ \E p \in Requests : LookupRespond(p)

ApiNext ==
    \/ \E p \in Requests : Send(p)
    \/ \E p \in Requests : Authenticate(p)
    \/ \E p \in Requests : RegisterFind(p)
    \/ \E p \in Requests : RegisterCreate(p)
    \/ \E p \in Requests : LoginFind(p)
    \/ \E p \in Requests : LoginTouch(p)
    \/ \E p \in Requests : GetProduct(p)
    \/ \E p \in Requests : PostFind(p)
    \/ \E p \in Requests : PostWrite(p)
    \/ \E p \in Requests : PostLog(p)
    \/ \E p \in Requests : PostCount(p)
    \/ \E p \in Requests : DeleteFind(p)
    \/ \E p \in Requests : DeleteDestroy(p)
    \/ \E p \in Requests : DeleteLog(p)
    \/ \E p \in Requests : BulkItem(p)
    \/ \E p \in Requests : BulkRespond(p)

(***************************************************************************)
(* PART 3: the mobile app, 04-4more-apps/inventory-mobile-app.js           *)
(*                                                                         *)
(* The state of a component is one record whose fields are the component's *)
(* useState values, with the position of its handlers under way.  The      *)
(* server's answers are taken from the answers its routes can give.        *)
(***************************************************************************)

MaxStarts == 2   \* bound: number of times the app is started

StorageKeys == {"authToken", "userData"}
\* response.data.token and response.data.user of a sign-in (deployment guide,
\* lines 924-934 and 969-978)
TheToken == "jwt"
TheUser == "user"

\* JSON.stringify and JSON.parse of the user object, lines 51 and 100
JSONstringify(u) == IF u = TheUser THEN "{user}" ELSE "null"
JSONparse(s) == IF s = "{user}" THEN TheUser ELSE "null"

\* The value of the default header, lines 52 and 101
Bearer(token) == <<"Bearer", token>>
NoHeader == <<>>

NullProduct == [barcode |-> 0, from |-> "null"]

\* useState initial values, lines 38-39, 80-84, 193-198, 342-347
NewApp == [user |-> "null", loading |-> TRUE]
NewLoginScreen ==
    [loading |-> FALSE, pc |-> "idle", isLogin |-> TRUE, email |-> "", password |-> "",
     name |-> "", request |-> "none", answer |-> "none"]
NewMainApp == [logout |-> "idle", statsLoading |-> FALSE]
NewScannerTab ==
    [loading |-> FALSE, product |-> NullProduct, showProductModal |-> FALSE,
     pc |-> "idle", barcode |-> 0, called |-> <<>>, got |-> "none", path |-> "none",
     save |-> "idle", saving |-> NullProduct]
\* MainApp as it mounts: its effect calls loadStats (lines 200-203)
MountedMainApp == [NewMainApp EXCEPT !.statsLoading = TRUE]

AppInit ==
    /\ AsyncStorage = [k \in StorageKeys |-> "null"]
    /\ Authorization = NoHeader
    /\ App = NewApp
    /\ LoginScreen = NewLoginScreen
    /\ MainApp = NewMainApp
    /\ ScannerTab = NewScannerTab
    /\ loggedOut = 0
    /\ starts = 1

\* What App renders, lines 61-74
Screen ==
    IF App.loading THEN "ActivityIndicator"
    ELSE IF App.user # "null" THEN "MainApp" ELSE "LoginScreen"

\* A native alert with buttons is open: it takes every press.
Dialog == MainApp.logout = "alert" \/ ScannerTab.pc = "notFound"

\* The app is closed and started again: memory is lost, AsyncStorage is kept.
Relaunch ==
    /\ starts < MaxStarts
    /\ starts' = starts + 1
    /\ App' = NewApp
    /\ Authorization' = NoHeader
    /\ LoginScreen' = NewLoginScreen
    /\ MainApp' = NewMainApp
    /\ ScannerTab' = NewScannerTab
    /\ UNCHANGED <<syncVars, apiVars, AsyncStorage, loggedOut>>

\* Variant of the restore that sets user without the header.
checkAuthStatus_noHeader ==
    /\ App.loading
    /\ \E works \in BOOLEAN :
          LET token == AsyncStorage["authToken"]
              userData == AsyncStorage["userData"]
          IN IF works /\ token # "null" /\ userData # "null"
             THEN /\ App' = [user |-> JSONparse(userData), loading |-> FALSE]
                  /\ MainApp' = MountedMainApp
                  /\ UNCHANGED Authorization
             ELSE /\ App' = [App EXCEPT !.loading = FALSE]
                  /\ UNCHANGED <<Authorization, MainApp>>
    /\ UNCHANGED <<syncVars, apiVars, AsyncStorage, LoginScreen, ScannerTab, loggedOut, starts>>

\* Lines 45-59, run once as App mounts.  Nothing else runs meanwhile: App
\* renders only the ActivityIndicator until loading is false.
checkAuthStatus ==
    /\ App.loading
    /\ \E works \in BOOLEAN :
          LET token == AsyncStorage["authToken"]
              userData == AsyncStorage["userData"]
          IN IF works /\ token # "null" /\ userData # "null"
             THEN /\ App' = [user |-> JSONparse(userData), loading |-> FALSE]
                  /\ Authorization' = Bearer(token)
                  /\ MainApp' = MountedMainApp
             ELSE /\ App' = [App EXCEPT !.loading = FALSE]
                  /\ UNCHANGED <<Authorization, MainApp>>
    /\ UNCHANGED <<syncVars, apiVars, AsyncStorage, LoginScreen, ScannerTab, loggedOut, starts>>

\* ---- LoginScreen, lines 78-110 ----

Texts == {"", "x"}
Forms == [isLogin : BOOLEAN, email : Texts, password : Texts, name : Texts]
\* Line 87
Incomplete(f) == f.email = "" \/ f.password = "" \/ (~f.isLogin /\ f.name = "")
\* Answers to the sign-in request: a token and a user, a success without a
\* token, or a failure (an error status or no answer).
AuthAnswers == {"token", "no token", "error"}

\* Lines 86-97: the button is disabled while loading (line 162).
handleAuth ==
    /\ Screen = "LoginScreen"
    /\ ~LoginScreen.loading
    /\ \E f \in Forms :
          LoginScreen' =
             IF Incomplete(f)
             THEN [loading |-> FALSE, pc |-> "rejected", isLogin |-> f.isLogin,
                   email |-> f.email, password |-> f.password, name |-> f.name,
                   request |-> "none", answer |-> "none"]
             ELSE [loading |-> TRUE, pc |-> "post", isLogin |-> f.isLogin,
                   email |-> f.email, password |-> f.password, name |-> f.name,
                   request |-> IF f.isLogin THEN "/auth/login" ELSE "/auth/register",
                   answer |-> "none"]
    /\ UNCHANGED <<syncVars, apiVars, AsyncStorage, Authorization, App, MainApp, ScannerTab,
                   loggedOut, starts>>

\* Variant of the answer without the finally block.
AuthAnswer_noFinally ==
    /\ LoginScreen.pc = "post"
    /\ \E answer \in AuthAnswers :
          LoginScreen' =
             IF answer = "token"
             THEN [LoginScreen EXCEPT !.pc = "setToken", !.answer = answer]
             ELSE [LoginScreen EXCEPT !.pc = "done", !.answer = answer]
    /\ UNCHANGED <<syncVars, apiVars, AsyncStorage, Authorization, App, MainApp, ScannerTab,
                   loggedOut, starts>>

\* Lines 97-99 and 103-107: the answer arrives.
AuthAnswer ==
    /\ LoginScreen.pc = "post"
    /\ \E answer \in AuthAnswers :
          LoginScreen' =
             IF answer = "token"
             THEN [LoginScreen EXCEPT !.pc = "setToken", !.answer = answer]
             ELSE [LoginScreen EXCEPT !.pc = "done", !.answer = answer, !.loading = FALSE]
    /\ UNCHANGED <<syncVars, apiVars, AsyncStorage, Authorization, App, MainApp, ScannerTab,
                   loggedOut, starts>>

\* Line 99: AsyncStorage.setItem('authToken', ...), which can reject.
AuthSetToken ==
    /\ LoginScreen.pc = "setToken"
    /\ \E works \in BOOLEAN :
          IF works
          THEN /\ AsyncStorage' = [AsyncStorage EXCEPT !["authToken"] = TheToken]
               /\ LoginScreen' = [LoginScreen EXCEPT !.pc = "setUserData"]
               /\ loggedOut' = 0
          ELSE /\ LoginScreen' = [LoginScreen EXCEPT !.pc = "done", !.loading = FALSE,
                                                     !.answer = "storage error"]
               /\ UNCHANGED <<AsyncStorage, loggedOut>>
    /\ UNCHANGED <<syncVars, apiVars, Authorization, App, MainApp, ScannerTab, starts>>

\* Lines 100-102: the second setItem, then the header and setUser, which
\* mounts MainApp.
AuthSetUserData ==
    /\ LoginScreen.pc = "setUserData"
    /\ \E works \in BOOLEAN :
          IF works
          THEN /\ AsyncStorage' = [AsyncStorage EXCEPT !["userData"] = JSONstringify(TheUser)]
               /\ Authorization' = Bearer(TheToken)
               /\ App' = [App EXCEPT !.user = TheUser]
               /\ MainApp' = MountedMainApp
               /\ ScannerTab' = NewScannerTab
               /\ LoginScreen' = [LoginScreen EXCEPT !.pc = "done", !.loading = FALSE]
          ELSE /\ LoginScreen' = [LoginScreen EXCEPT !.pc = "done", !.loading = FALSE,
                                                     !.answer = "storage error"]
               /\ UNCHANGED <<AsyncStorage, Authorization, App, MainApp, ScannerTab>>
    /\ UNCHANGED <<syncVars, apiVars, loggedOut, starts>>

\* ---- MainApp, lines 192-236 ----

\* Lines 205-212: the GET /stats of loadStats is answered or fails.
loadStats ==
    /\ MainApp.statsLoading
    /\ MainApp' = [MainApp EXCEPT !.statsLoading = FALSE]
    /\ UNCHANGED <<syncVars, apiVars, AsyncStorage, Authorization, App, LoginScreen,
                   ScannerTab, loggedOut, starts>>

\* Lines 218-222: the logout button opens the confirmation.
handleLogout ==
    /\ Screen = "MainApp"
    /\ ~Dialog /\ ~ScannerTab.showProductModal
    /\ MainApp.logout \in {"idle", "cancelled", "failed"}
    /\ MainApp' = [MainApp EXCEPT !.logout = "alert"]
    /\ UNCHANGED <<syncVars, apiVars, AsyncStorage, Authorization, App, LoginScreen,
                   ScannerTab, loggedOut, starts>>

\* Line 223
LogoutCancel ==
    /\ MainApp.logout = "alert"
    /\ MainApp' = [MainApp EXCEPT !.logout = "cancelled"]
    /\ UNCHANGED <<syncVars, apiVars, AsyncStorage, Authorization, App, LoginScreen,
                   ScannerTab, loggedOut, starts>>

\* Lines 224-227: Logout is chosen and onPress begins.
LogoutConfirm ==
    /\ MainApp.logout = "alert"
    /\ MainApp' = [MainApp EXCEPT !.logout = "removeToken"]
    /\ UNCHANGED <<syncVars, apiVars, AsyncStorage, Authorization, App, LoginScreen,
                   ScannerTab, loggedOut, starts>>

\* Line 228: a removeItem that rejects ends onPress, which catches nothing.
LogoutRemoveToken ==
    /\ MainApp.logout = "removeToken"
    /\ \E works \in BOOLEAN :
          IF works
          THEN /\ AsyncStorage' = [AsyncStorage EXCEPT !["authToken"] = "null"]
               /\ MainApp' = [MainApp EXCEPT !.logout = "removeUserData"]
          ELSE /\ MainApp' = [MainApp EXCEPT !.logout = "failed"]
               /\ UNCHANGED AsyncStorage
    /\ UNCHANGED <<syncVars, apiVars, Authorization, App, LoginScreen, ScannerTab,
                   loggedOut, starts>>

\* Variant of the last step that keeps the header.
LogoutRemoveUserData_keepsHeader ==
    /\ MainApp.logout = "removeUserData"
    /\ \E works \in BOOLEAN :
          IF works
          THEN /\ AsyncStorage' = [AsyncStorage EXCEPT !["userData"] = "null"]
               /\ Authorization' = Authorization
               /\ App' = [App EXCEPT !.user = "null"]
               /\ MainApp' = NewMainApp
               /\ ScannerTab' = NewScannerTab
               /\ LoginScreen' = NewLoginScreen
               /\ loggedOut' = starts
          ELSE /\ MainApp' = [MainApp EXCEPT !.logout = "failed"]
               /\ UNCHANGED <<AsyncStorage, Authorization, App, ScannerTab, LoginScreen,
                              loggedOut>>
    /\ UNCHANGED <<syncVars, apiVars, starts>>

\* Lines 229-231: the second removeItem, then the header is deleted and
\* setUser(null) unmounts MainApp and mounts LoginScreen.
LogoutRemoveUserData ==
    /\ MainApp.logout = "removeUserData"
    /\ \E works \in BOOLEAN :
          IF works
          THEN /\ AsyncStorage' = [AsyncStorage EXCEPT !["userData"] = "null"]
               /\ Authorization' = NoHeader
               /\ App' = [App EXCEPT !.user = "null"]
               /\ MainApp' = NewMainApp
               /\ ScannerTab' = NewScannerTab
               /\ LoginScreen' = NewLoginScreen
               /\ loggedOut' = starts
          ELSE /\ MainApp' = [MainApp EXCEPT !.logout = "failed"]
               /\ UNCHANGED <<AsyncStorage, Authorization, App, ScannerTab, LoginScreen,
                              loggedOut>>
    /\ UNCHANGED <<syncVars, apiVars, starts>>

\* ---- ScannerTab, lines 341-503 ----

\* Answers of GET /products/{barcode} (deployment guide, lines 1156-1168, and
\* authenticateToken): the record, or a failure (404, 401, 403, 500, no answer)
GetAnswers == {"product", "failed"}
\* Answers of POST /products/lookup (deployment guide, lines 1012-1019)
LookupAnswers == {"success", "not found", "error"}

\* Lines 363-366, from the scanner (358-361) or the Lookup button (473-479),
\* both disabled while loading.
lookupProduct ==
    /\ Screen = "MainApp"
    /\ ~Dialog /\ ~ScannerTab.showProductModal
    /\ ~ScannerTab.loading
    /\ \E barcode \in Barcodes :
          ScannerTab' = [ScannerTab EXCEPT !.loading = TRUE, !.pc = "get",
                                           !.barcode = barcode,
                                           !.called = <<"GET /products/barcode">>,
                                           !.got = "none", !.path = "none"]
    /\ UNCHANGED <<syncVars, apiVars, AsyncStorage, Authorization, App, LoginScreen, MainApp,
                   loggedOut, starts>>

\* Variant that asks the providers whatever the database answered.
LookupGet_always ==
    /\ ScannerTab.pc = "get"
    /\ \E answer \in GetAnswers :
          ScannerTab' = [ScannerTab EXCEPT
                           !.got = answer, !.pc = "post",
                           !.called = Append(@, "POST /products/lookup")]
    /\ UNCHANGED <<syncVars, apiVars, AsyncStorage, Authorization, App, LoginScreen, MainApp,
                   loggedOut, starts>>

\* Lines 366-380: the answer of the database request.
LookupGet ==
    /\ ScannerTab.pc = "get"
    /\ \E answer \in GetAnswers :
          ScannerTab' =
             IF answer = "product"
             THEN [ScannerTab EXCEPT
                     !.got = answer, !.pc = "done", !.path = "database",
                     !.product = [barcode |-> ScannerTab.barcode, from |-> "database"],
                     !.showProductModal = TRUE, !.loading = FALSE]
             ELSE [ScannerTab EXCEPT
                     !.got = answer, !.pc = "post",
                     !.called = Append(@, "POST /products/lookup")]
    /\ UNCHANGED <<syncVars, apiVars, AsyncStorage, Authorization, App, LoginScreen, MainApp,
                   loggedOut, starts>>

\* Lines 381-400: the answer of the lookup request.
LookupPost ==
    /\ ScannerTab.pc = "post"
    /\ \E answer \in LookupAnswers :
          ScannerTab' =
             IF answer = "success"
             THEN [ScannerTab EXCEPT
                     !.pc = "done", !.path = "lookup",
                     !.product = [barcode |-> ScannerTab.barcode, from |-> "lookup"],
                     !.showProductModal = TRUE, !.loading = FALSE]
             ELSE IF answer = "not found"
             THEN [ScannerTab EXCEPT !.pc = "notFound", !.path = "not found",
                                     !.loading = FALSE]
             ELSE [ScannerTab EXCEPT !.pc = "done", !.path = "lookup error",
                                     !.loading = FALSE]
    /\ UNCHANGED <<syncVars, apiVars, AsyncStorage, Authorization, App, LoginScreen, MainApp,
                   loggedOut, starts>>

\* Line 390: Cancel in the 'Product Not Found' alert.
NotFoundCancel ==
    /\ ScannerTab.pc = "notFound"
    /\ ScannerTab' = [ScannerTab EXCEPT !.pc = "done"]
    /\ UNCHANGED <<syncVars, apiVars, AsyncStorage, Authorization, App, LoginScreen, MainApp,
                   loggedOut, starts>>

\* Variant that opens the modal without a product.
showManualEntry_noProduct ==
    /\ ScannerTab.pc = "notFound"
    /\ ScannerTab' = [ScannerTab EXCEPT !.pc = "done", !.showProductModal = TRUE]
    /\ UNCHANGED <<syncVars, apiVars, AsyncStorage, Authorization, App, LoginScreen, MainApp,
                   loggedOut, starts>>

\* Lines 391 and 403-406: Add Manually.
showManualEntry ==
    /\ ScannerTab.pc = "notFound"
    /\ ScannerTab' = [ScannerTab EXCEPT
                        !.pc = "done",
                        !.product = [barcode |-> ScannerTab.barcode, from |-> "manual"],
                        !.showProductModal = TRUE]
    /\ UNCHANGED <<syncVars, apiVars, AsyncStorage, Authorization, App, LoginScreen, MainApp,
                   loggedOut, starts>>

\* Lines 498-501: the close and Cancel buttons of the modal.
onClose ==
    /\ ScannerTab.showProductModal
    /\ ~Dialog
    /\ ScannerTab' = [ScannerTab EXCEPT !.showProductModal = FALSE, !.product = NullProduct]
    /\ UNCHANGED <<syncVars, apiVars, AsyncStorage, Authorization, App, LoginScreen, MainApp,
                   loggedOut, starts>>

\* Lines 408-410 and 526-538: Save Product sends the POST.
saveProduct ==
    /\ ScannerTab.showProductModal
    /\ ~Dialog
    /\ ScannerTab.save # "post"
    /\ ScannerTab' = [ScannerTab EXCEPT !.save = "post", !.saving = ScannerTab.product]
    /\ UNCHANGED <<syncVars, apiVars, AsyncStorage, Authorization, App, LoginScreen, MainApp,
                   loggedOut, starts>>

\* Variant that closes the modal whatever the answer.
SaveAnswer_closes ==
    /\ ScannerTab.save = "post"
    /\ \E ok \in BOOLEAN :
          /\ ScannerTab' = [ScannerTab EXCEPT
                              !.save = IF ok THEN "saved" ELSE "failed",
                              !.showProductModal = FALSE, !.product = NullProduct]
          /\ MainApp' = IF ok THEN [MainApp EXCEPT !.statsLoading = TRUE] ELSE MainApp
    /\ UNCHANGED <<syncVars, apiVars, AsyncStorage, Authorization, App, LoginScreen,
                   loggedOut, starts>>

\* Lines 410-417: the POST /products is answered or fails.
SaveAnswer ==
    /\ ScannerTab.save = "post"
    /\ \E ok \in BOOLEAN :
          IF ok
          THEN /\ ScannerTab' = [ScannerTab EXCEPT
                                   !.save = "saved", !.showProductModal = FALSE,
                                   !.product = NullProduct]
               /\ MainApp' = [MainApp EXCEPT !.statsLoading = TRUE]
          ELSE /\ ScannerTab' = [ScannerTab EXCEPT !.save = "failed"]
               /\ UNCHANGED MainApp
    /\ UNCHANGED <<syncVars, apiVars, AsyncStorage, Authorization, App, LoginScreen,
                   loggedOut, starts>>

AppNext ==
    \/ Relaunch
    \/ checkAuthStatus
    \/ handleAuth
    \/ AuthAnswer
    \/ AuthSetToken
    \/ AuthSetUserData
    \/ loadStats
    \/ handleLogout
    \/ LogoutCancel
    \/ LogoutConfirm
    \/ LogoutRemoveToken
    \/ LogoutRemoveUserData
    \/ lookupProduct
    \/ LookupGet
    \/ LookupPost
    \/ NotFoundCancel
    \/ showManualEntry
    \/ onClose
    \/ saveProduct
    \/ SaveAnswer

(***************************************************************************)
(*                           Specifications                                *)
(***************************************************************************)

Init == SyncInit /\ ApiInit /\ AppInit

SyncSpec == Init /\ [][SyncNext]_vars

\* Airtable runs every automation it has triggered, and the companion and
\* WooCommerce process what they are sent.
SyncFair ==
    /\ Init
    /\ [][SyncNext]_vars
    /\ WF_vars(Run)
    /\ WF_vars(Companion)
    /\ WF_vars(WriteBack)

\* The server runs apart from the automation, whose table is taken empty here.
SyncOff == SyncInit /\ \A r \in RecordIds : table[r] = NoRecord
ApiStart == SyncOff /\ ApiInit /\ AppInit
QueryStart == SyncOff /\ QueryInit /\ AppInit

ApiSpec == ApiStart /\ [][ApiNext]_vars

\* The server with one client: a request is sent only when no other is under
\* way, so no two requests overlap.
ApiSeqNext ==
    \/ \E p \in Requests : SendAlone(p)
    \/ \E p \in Requests : Authenticate(p)
    \/ \E p \in Requests : RegisterFind(p)
    \/ \E p \in Requests : RegisterCreate(p)
    \/ \E p \in Requests : LoginFind(p)
    \/ \E p \in Requests : LoginTouch(p)
    \/ \E p \in Requests : GetProduct(p)
    \/ \E p \in Requests : PostFind(p)
    \/ \E p \in Requests : PostWrite(p)
    \/ \E p \in Requests : PostLog(p)
    \/ \E p \in Requests : PostCount(p)
    \/ \E p \in Requests : DeleteFind(p)
    \/ \E p \in Requests : DeleteDestroy(p)
    \/ \E p \in Requests : DeleteLog(p)
    \/ \E p \in Requests : BulkItem(p)
    \/ \E p \in Requests : BulkRespond(p)

ApiSeq == ApiStart /\ [][ApiSeqNext]_vars

\* The settings routes of the server, with one client.
SettingsSpec == ApiStart /\ [][SettingsNext]_vars

\* The mobile app, with the server left out: its answers are inputs.
AppSpec == ApiStart /\ [][AppNext]_vars

\* The query routes of the server.
QuerySpec == QueryStart /\ [][QueryNext]_vars


(***************************************************************************)
(*                 Properties of the automation script                     *)
(***************************************************************************)

Checked == pc \in {"fetch", "done"} /\ record # NoRecord
Finished == pc = "done"
HumanEdits == 1..MaxEdits

\* C1: in the closed loop script -> companion -> WooCommerce -> write-back ->
\* script, once the human edits have stopped there comes a point after which
\* no run of the script sends a webhook any more.
C1_ChainOfForwardsEnds == <>[][~RunFetch]_vars

\* C2 as stated: a run triggered by a create or an update event on a record
\* stamped less than the threshold before the run sends nothing and ends
\* 'skipped'.
C2_CreateOrUpdateRecentSkipped ==
    (Finished /\ record # NoRecord /\ inputConfig.triggerType \in {"create", "update"}
        /\ Recent(minutesSinceSync))
    => (Status(output) = "skipped" /\ sent = <<>>)

\* C2 amended: a run triggered by an update event on a record stamped less
\* than the threshold before the run sends nothing and ends 'skipped'.
C2_UpdateRecentSkipped ==
    (Checked /\ inputConfig.triggerType = "update" /\ Recent(minutesSinceSync))
    => (pc = "done" /\ Status(output) = "skipped" /\ sent = <<>>)

C2_Witness ==
    /\ Finished /\ inputConfig.triggerType = "update" /\ Recent(minutesSinceSync)
    /\ Status(output) = "skipped"

\* C3: a create run that found its record sends the webhook whatever the
\* stamp is, and never ends 'skipped'.
C3_CreateAlwaysSends ==
    (Checked /\ inputConfig.triggerType = "create")
    => /\ Status(output) # "skipped"
       /\ Finished => (Len(sent) = 1 /\ Status(output) \in {"success", "error"})

C3_Witness ==
    /\ Finished /\ inputConfig.triggerType = "create" /\ Recent(minutesSinceSync)
    /\ Len(sent) = 1

\* C4: every request the script sends is a POST to the webhook with the
\* shared-secret header and the envelope {type, base: {id}, record: {id,
\* fields?}}: type is record.created / record.updated / record.deleted after
\* the trigger type, the ids are the base's and the triggering record's, and
\* fields (exactly Product Name, SKU, Stock Quantity) is there iff the trigger
\* type is not 'delete'.
C4_Envelope ==
    \A i \in 1..Len(sent) :
       LET post == sent[i]
           type == inputConfig.triggerType
       IN /\ post.method = "POST"
          /\ post.url = WEBHOOK_URL
          /\ "X-Airtable-Signature" \in DOMAIN post.headers
          /\ post.headers["X-Airtable-Signature"] = WEBHOOK_SECRET
          /\ DOMAIN post.body = {"type", "base", "record"}
          /\ post.body.type = (CASE type = "create" -> "record.created"
                                [] type = "update" -> "record.updated"
                                [] type = "delete" -> "record.deleted")
          /\ post.body.base = [id |-> BaseId]
          /\ post.body.record.id = inputConfig.recordId
          /\ ("fields" \in DOMAIN post.body.record) <=> (type # "delete")
          /\ type # "delete" =>
                /\ DOMAIN post.body.record = {"id", "fields"}
                /\ DOMAIN post.body.record.fields =
                      {"Product Name", "SKU", "Stock Quantity"}
                /\ post.body.record.fields["Stock Quantity"] = record.stock
          /\ type = "delete" => DOMAIN post.body.record = {"id"}

C4_Witness ==
    /\ Len(sent) = 1 /\ inputConfig.triggerType = "delete"
    /\ "fields" \notin DOMAIN sent[1].body.record

NotRecent(age) == age = NoSync \/ age >= ThresholdTicks

C13_ForwardIffNotRecent ==
    (Checked /\ inputConfig.triggerType \in {"update", "delete"})
    => /\ pc = "fetch" => NotRecent(minutesSinceSync)
       /\ Finished => /\ Len(sent) = 1 <=> NotRecent(minutesSinceSync)
                      /\ Status(output) = "skipped" <=> ~NotRecent(minutesSinceSync)

C13_Witness ==
    /\ Finished /\ inputConfig.triggerType = "update" /\ inputConfig.edit = 0
    /\ minutesSinceSync = ThresholdTicks
    /\ Len(sent) = 1

\* C14: a run sends at most one POST; after a POST that threw or was answered
\* with an error status the run is over with status 'error' and the error
\* output and without the response output; status 'success' and the response
\* output are set only after an ok answer.
C14_OnePostNoRetry ==
    /\ Len(sent) <= 1
    /\ response = "none" <=> sent = <<>>
    /\ response \in {"not_ok", "throw"}
          => /\ pc = "done"
             /\ Status(output) = "error"
             /\ DOMAIN output = {"status", "error"}
    /\ (Status(output) = "success" \/ "response" \in DOMAIN output)
          => /\ response = "ok"
             /\ Status(output) = "success"
             /\ DOMAIN output = {"status", "response"}

C14_Witness ==
    /\ Finished /\ response = "throw" /\ Len(sent) = 1
    /\ Status(output) = "error"

\* C15: a run goes through the script once, forwards only: while it is under
\* way no status is set, when it is over the status is one of the five, and
\* the status then stays as it is until the next run begins; a run that ends
\* 'no_record_id', 'record_not_found' or 'skipped' has sent nothing.
Statuses == {"skipped", "success", "error", "record_not_found", "no_record_id"}
Forwards ==
    {<<"idle", "select">>, <<"idle", "done">>, <<"done", "select">>,
     <<"select", "check">>, <<"select", "done">>, <<"check", "fetch">>,
     <<"check", "done">>, <<"fetch", "done">>}
NextRunBegins == \E t \in triggers : inputConfig' = t /\ triggers' = triggers \ {t}

C15_StatusSetOnce ==
    /\ [](pc \in {"select", "check", "fetch"} => output = NoOutput)
    /\ [](Finished => /\ Status(output) \in Statuses
                      /\ Status(output) \in {"no_record_id", "record_not_found", "skipped"}
                            => (sent = <<>> /\ response = "none"))
    /\ [][pc' # pc => <<pc, pc'>> \in Forwards]_vars
    /\ [][(Status(output) # "unset" /\ output' # output) => (pc = "done" /\ NextRunBegins)]_vars

C15_Witness ==
    /\ Finished /\ Status(output) = "record_not_found"
    /\ inputConfig.recordId # NoId /\ sent = <<>>

\* C16: no step of a run of the script changes the table ("Last WooCommerce
\* Sync" included) or fires an automation trigger.
C16_ScriptNeverWrites ==
    [][Run => (table' = table /\ triggers' \subseteq triggers)]_vars

C16_Witness ==
    /\ Finished /\ response = "ok" /\ Status(output) = "success"
    /\ table[inputConfig.recordId] = record
    /\ triggers = {}


(***************************************************************************)
(*                  Properties of the inventory server                     *)
(***************************************************************************)

Done(p) == rpc[p] = "done"
InHandler(p) ==
    rpc[p] \in {"run", "create", "touch", "write", "log", "count", "destroy", "lookup"}
Protected(p) == req[p].route \in Routes \ PublicRoutes

\* C6: no two Products records have the same Barcode.
C6_BarcodeUnique ==
    \A x \in products : \A y \in products : x.Barcode = y.Barcode => x = y

\* C7: when two POST /api/products requests for one barcode have both got
\* null from their lookup, both take the create branch and each creates a
\* Products record of its own.
WroteAfterNull(p) ==
    /\ req[p].route = "postProduct"
    /\ local[p].existing = NoProduct
    /\ local[p].product # NoProduct

C7_BothCreate ==
    \A p \in Requests : \A q \in Requests \ {p} :
       (WroteAfterNull(p) /\ WroteAfterNull(q) /\ req[p].barcode = req[q].barcode)
       => /\ local[p].product.id # local[q].product.id
          /\ local[p].product.Barcode = req[p].barcode
          /\ local[q].product.Barcode = req[p].barcode
          /\ "Products.create" \in ops[p] /\ "Products.update" \notin ops[p]
          /\ "Products.create" \in ops[q] /\ "Products.update" \notin ops[q]

C7_Witness ==
    \E p \in Requests : \E q \in Requests \ {p} :
       /\ WroteAfterNull(p) /\ WroteAfterNull(q) /\ req[p].barcode = req[q].barcode
       /\ nFailures = 0
       /\ local[p].product \in products /\ local[q].product \in products
       /\ local[p].product # local[q].product

\* C8: a request to a route other than register and login that carries no
\* token is answered 401, one whose token does not verify or whose user has
\* no Users record is answered 403; its route handler is not run, and beyond
\* the user lookup no Airtable call is made for it.
Unregistered(e) == \A u \in users : u.Email # e

C8_BearerTokenRequired ==
    \A p \in Requests :
       (Protected(p) /\ (req[p].token.kind # "valid" \/ Unregistered(req[p].token.email)))
       => /\ ~InHandler(p)
          /\ Done(p) => resp[p].status = IF req[p].token.kind = "none" THEN 401 ELSE 403
          /\ ops[p] \subseteq {"Users.select"}
          /\ req[p].token.kind # "valid" => ops[p] = {}
          /\ local[p] = NoLocal

C8_Witness ==
    \E p \in Requests :
       /\ Protected(p) /\ Done(p)
       /\ req[p].token.kind = "valid" /\ Unregistered(req[p].token.email)
       /\ resp[p].status = 403 /\ ops[p] = {"Users.select"}

\* C9: a request during whose route handler a call to Airtable or to a
\* lookup provider failed is answered with status 500.
C9_FailureAnswered500 ==
    \A p \in Requests : (Done(p) /\ failed[p]) => resp[p].status = 500

\* C10: a user's TotalScans is the number of that user's POST /api/products
\* requests that have completed successfully (TotalScans starts at 0).
ScansCompleted(u) ==
    {p \in Requests : /\ req[p].route = "postProduct" /\ Done(p)
                      /\ resp[p].status = 200 /\ local[p].user.id = u.id}

C10_ScanCounts ==
    \A u \in users : u.TotalScans = Cardinality(ScansCompleted(u))

\* C11: GET /api/products with page p and limit n answers 200 with records
\* (p-1)*n+1 .. p*n of the table sorted by ScannedAt, newest first (records
\* are scanned in the order of their ids), so that two requests for different
\* pages with the same limit have no record in common.
Newest(tbl) == CHOOSE rec \in tbl : \A other \in tbl : other.id <= rec.id
RECURSIVE ByScannedAtDesc(_)
ByScannedAtDesc(tbl) ==
    IF tbl = {} THEN <<>> ELSE <<Newest(tbl)>> \o ByScannedAtDesc(tbl \ {Newest(tbl)})
PageOf(list, pg, n) ==
    [i \in 1..(IF Len(list) >= pg * n THEN n
               ELSE IF Len(list) > (pg - 1) * n THEN Len(list) - (pg - 1) * n
               ELSE 0) |-> list[(pg - 1) * n + i]]
Listed(p) == req[p].route = "listProducts" /\ Done(p) /\ resp[p].status \notin {401, 403}
Range(seq) == {seq[i] : i \in 1..Len(seq)}

C11_Pagination ==
    /\ \A p \in Requests :
          Listed(p) => /\ resp[p].status = 200
                       /\ local[p].results =
                             PageOf(ByScannedAtDesc(products), req[p].page, req[p].limit)
    /\ \A p \in Requests : \A q \in Requests :
          (Listed(p) /\ Listed(q) /\ req[p].limit = req[q].limit /\ req[p].page # req[q].page)
          => Range(local[p].results) \cap Range(local[q].results) = {}

\* C12: a bulk request goes through all its barcodes whatever fails on the
\* way: each barcode ends in results or in errors, never in both; the ones in
\* errors are those for which a provider lookup or the create failed; the
\* answer is 200 with success + failed = the number of barcodes.
Served(p) == Done(p) /\ resp[p].status \notin {401, 403}
Occurs(seq, b) == Cardinality({i \in 1..Len(seq) : seq[i] = b})
BarcodesOf(recs) == [i \in 1..Len(recs) |-> recs[i].Barcode]

C12_BulkIsolatesFailures ==
    \A p \in Requests :
       req[p].route = "bulk" =>
          /\ local[p].errors = local[p].failures
          /\ Served(p) =>
                /\ resp[p].status = 200
                /\ Len(local[p].results) + Len(local[p].errors) = Len(req[p].barcodes)
                /\ \A b \in Barcodes :
                      Occurs(req[p].barcodes, b) =
                         Occurs(BarcodesOf(local[p].results), b) + Occurs(local[p].errors, b)

\* C17: with one client, a POST /api/products that is answered 200 has
\* created a record iff no record had the barcode when it looked, has
\* otherwise updated one of the records that had it, and has logged exactly
\* one ScanHistory record, with Action 'scan' after a create and 'update'
\* after an update.
HistoryOf(p) == {i \in 1..Len(history) : history[i].Request = p}

C17_CreateIffAbsent ==
    \A p \in Requests :
       (req[p].route = "postProduct" /\ Done(p) /\ resp[p].status = 200)
       => /\ "Products.create" \in ops[p] <=> local[p].matched = {}
          /\ "Products.update" \in ops[p] <=> local[p].matched # {}
          /\ local[p].matched # {} => local[p].product.id \in local[p].matched
          /\ Cardinality(HistoryOf(p)) = 1
          /\ \A i \in HistoryOf(p) :
                history[i].Action = IF local[p].matched = {} THEN "scan" ELSE "update"

\* C18: POST /api/products writes the product, then the ScanHistory record,
\* then the user's TotalScans, each only after the one before has succeeded,
\* and answers 200 with the product only after all three; a write that fails
\* ends the request with 500, with no later write attempted and the tables
\* left as the earlier writes made them.
PostSteps ==
    {<<"write", "log">>, <<"write", "done">>, <<"log", "count">>, <<"log", "done">>,
     <<"count", "done">>}
Wrote(p) == ops[p] \cap {"Products.create", "Products.update"} # {}

PostOrder(p) ==
    /\ "ScanHistory.create" \in ops[p] => (Wrote(p) /\ local[p].product # NoProduct)
    /\ "Users.update" \in ops[p] => Cardinality(HistoryOf(p)) = 1
    /\ (Done(p) /\ resp[p].status = 200)
          => /\ "Users.update" \in ops[p]
             /\ resp[p].body = "product"
    /\ Done(p) => resp[p].status \in {200, 500, 401, 403}

PostStep(p) ==
    (rpc'[p] # rpc[p] /\ rpc[p] \in {"write", "log", "count"})
    => /\ <<rpc[p], rpc'[p]>> \in PostSteps
       /\ nFailures' > nFailures => (rpc'[p] = "done" /\ resp'[p].status = 500)
       /\ resp'[p].status = 500
             => (products' = products /\ history' = history /\ users' = users)
       /\ resp'[p].status = 200 => rpc[p] = "count"
       /\ rpc[p] = "write" => (history' = history /\ users' = users)
       /\ rpc[p] = "log" => (products' = products /\ users' = users)
       /\ <<rpc[p], rpc'[p]>> = <<"log", "count">> => Len(history') = Len(history) + 1
       /\ rpc[p] = "count" => (products' = products /\ history' = history)

C18_WritesInOrder ==
    /\ [](\A p \in Requests : req[p].route = "postProduct" => PostOrder(p))
    /\ [][\A p \in Requests : req[p].route = "postProduct" => PostStep(p)]_vars

C18_Witness ==
    \E p \in Requests :
       /\ req[p].route = "postProduct" /\ Done(p) /\ resp[p].status = 500
       /\ "Products.create" \in ops[p] /\ "ScanHistory.create" \in ops[p]
       /\ "Users.update" \notin ops[p]
       /\ local[p].product \in products
       /\ HistoryOf(p) = {}

\* C19: with one client whose register lookups succeed, a register request
\* for an e-mail address that has a Users record is answered 400 'User
\* already exists', creates no record and issues no token, and no two Users
\* records have the same Email.
LookupFailed(p) == "Users.select failed" \in ops[p]
Registering(p) == req[p].route = "register" /\ rpc[p] # "new"

Rank(fn) ==
    CASE fn = "lookupOpenFoodFacts" -> 1
      [] fn = "lookupUPCItemDB" -> 2
      [] fn = "lookupBarcodeLookup" -> 3
LookingUpAll(p) == req[p].route = "lookup" /\ req[p].provider = "all"
Usable ==
    {"lookupOpenFoodFacts"}
       \cup (IF "UPC_ITEMDB_KEY" \in env THEN {"lookupUPCItemDB"} ELSE {})
       \cup (IF "BARCODE_LOOKUP_KEY" \in env THEN {"lookupBarcodeLookup"} ELSE {})

C20_LookupAll ==
    \A p \in Requests :
       LookingUpAll(p) =>
          LET c == local[p].called IN
          /\ \A i \in 1..Len(c) : \A j \in 1..Len(c) :
                i < j => Rank(c[i].fn) < Rank(c[j].fn)
          /\ \A i \in 1..Len(c) : i < Len(c) => c[i].answer # "product"
          /\ \A i \in 1..Len(c) : c[i].fn \in Usable
          /\ Served(p) =>
                /\ resp[p].status = 200
                /\ resp[p].body = "success: false"
                      <=> \A i \in 1..Len(c) : c[i].answer # "product"
                /\ resp[p].body = "success: false"
                      => {c[i].fn : i \in 1..Len(c)} = Usable
                /\ resp[p].body # "success: false"
                      => (resp[p].body = "success: true" /\ c[Len(c)].answer = "product")

C20_Witness ==
    \E p \in Requests :
       /\ LookingUpAll(p) /\ Served(p) /\ env = Keys
       /\ local[p].called = <<[fn |-> "lookupOpenFoodFacts", answer |-> "error"],
                              [fn |-> "lookupUPCItemDB", answer |-> "nothing"],
                              [fn |-> "lookupBarcodeLookup", answer |-> "product"]>>
       /\ resp[p].body = "success: true"


\* C21: an authenticated GET /api/products that supplies no filter, with
\* Airtable answering, is answered 200 with the newest limit records of the
\* table, newest first.
C21_ListNewestFirst ==
    \A p \in Requests :
       (Listed(p) /\ ~failed[p])
       => /\ resp[p].status = 200
          /\ local[p].results = PageOf(ByScannedAtDesc(products), 1, req[p].limit)
          /\ Len(local[p].results) <= req[p].limit

\* C22: with one client, a DELETE /api/products/:barcode that is not answered
\* 500 is answered 404 with nothing written when no record had the barcode,
\* and has otherwise removed the record and logged exactly one ScanHistory
\* record with Action 'delete'; a GET for the barcode after that is answered
\* 404.
Deleted(p) == req[p].route = "deleteProduct" /\ Served(p) /\ resp[p].status # 500

C22_Delete ==
    /\ \A p \in Requests :
          Deleted(p) =>
             /\ local[p].matched = {}
                   => /\ resp[p].status = 404
                      /\ ops[p] \cap {"Products.destroy", "ScanHistory.create"} = {}
             /\ local[p].matched # {}
                   => /\ resp[p].status = 200
                      /\ "Products.destroy" \in ops[p]
                      /\ Cardinality(HistoryOf(p)) = 1
                      /\ \A i \in HistoryOf(p) : history[i].Action = "delete"
    /\ \A p \in Requests : \A q \in Requests :
          (/\ Deleted(p) /\ resp[p].status = 200 /\ p < q
           /\ req[q].route = "getProduct" /\ Served(q) /\ req[q].barcode = req[p].barcode)
          => resp[q].status = 404

\* C23: a login with an unknown address and a login with a wrong password
\* get one and the same answer, 401 'Invalid credentials'; a login answered
\* 401 has written nothing and got no token; the LastActive update is made
\* and the token sent only for a user found whose password compared equal.
LoggingIn(p) == req[p].route = "login" /\ rpc[p] # "new"
UnknownEmail(p) == LoggingIn(p) /\ Done(p) /\ local[p].matched = {}
WrongPassword(p) ==
    LoggingIn(p) /\ Done(p) /\ local[p].matched # {} /\ req[p].password = "wrong"
InvalidCredentials == [status |-> 401, body |-> "Invalid credentials"]

C23_LoginUniform ==
    /\ \A p \in Requests :
          LoggingIn(p) =>
             /\ (UnknownEmail(p) \/ WrongPassword(p)) => resp[p] = InvalidCredentials
             /\ resp[p].status = 401
                   => /\ resp[p] = InvalidCredentials
                      /\ ops[p] \subseteq {"Users.select", "Users.select failed"}
             /\ "Users.update" \in ops[p]
                   => /\ req[p].password = "right"
                      /\ local[p].user # NoUser
                      /\ local[p].user.Email = req[p].email
             /\ resp[p].body = "token" => (resp[p].status = 200 /\ "Users.update" \in ops[p])
    /\ \A p \in Requests : \A q \in Requests :
          (UnknownEmail(p) /\ WrongPassword(q)) => resp[p] = resp[q]

C23_Witness ==
    \E p \in Requests : \E q \in Requests :
       /\ UnknownEmail(p) /\ WrongPassword(q) /\ nFailures = 0
       /\ resp[p] = InvalidCredentials /\ resp[q] = InvalidCredentials

\* C24: GET /api/settings answers the default settings when the user has no
\* Settings record and the record otherwise; a POST /api/settings answered
\* 200 has updated the user's record when there was one and created one only
\* when there was none; no user has two Settings records.
C24_OneSettingsRecord ==
    /\ \A p \in Requests :
          (req[p].route = "getSettings" /\ Served(p) /\ resp[p].status # 500)
          => resp[p].body = IF local[p].matched = {} THEN "default settings"
                            ELSE "settings record"
    /\ \A p \in Requests :
          (req[p].route = "postSettings" /\ Served(p) /\ resp[p].status = 200)
          => /\ "Settings.create" \in ops[p] <=> local[p].matched = {}
             /\ "Settings.update" \in ops[p] <=> local[p].matched # {}
    /\ \A x \in settings : \A y \in settings : x.UserEmail = y.UserEmail => x = y

(***************************************************************************)
(*                     Properties of the mobile app                        *)
(***************************************************************************)

StoredSession == AsyncStorage["authToken"] # "null" /\ AsyncStorage["userData"] # "null"

\* C25: whenever user is non-null the Authorization default header holds the
\* bearer token, and the session restore at startup sets user only when both
\* 'authToken' and 'userData' are in AsyncStorage.
C25_HeaderWhileSignedIn ==
    /\ [](App.user # "null" => Authorization = Bearer(TheToken))
    /\ [][(App.loading /\ App'.user # "null") => StoredSession]_vars

\* A session restored at the second start, with no sign-in since.
C25_Witness ==
    /\ starts > 1 /\ Screen = "MainApp" /\ LoginScreen.pc = "idle"
    /\ Authorization = Bearer(TheToken)

AuthForm ==
    [isLogin |-> LoginScreen.isLogin, email |-> LoginScreen.email,
     password |-> LoginScreen.password, name |-> LoginScreen.name]
AuthFailed == LoginScreen.pc = "done" /\ LoginScreen.answer \in {"error", "no token"}

C27_HandleAuthFailure ==
    /\ [](/\ LoginScreen.request # "none" => ~Incomplete(AuthForm)
          /\ LoginScreen.pc = "rejected"
                => (Incomplete(AuthForm) /\ LoginScreen.request = "none")
          /\ (LoginScreen.pc # "idle" /\ Incomplete(AuthForm)) => LoginScreen.pc = "rejected"
          /\ LoginScreen.pc \in {"done", "rejected"} => ~LoginScreen.loading
          /\ AuthFailed => App.user = "null")
    /\ [][(LoginScreen.pc = "post" /\ LoginScreen'.answer \in {"error", "no token"})
             => UNCHANGED <<AsyncStorage, Authorization, App>>]_vars

C27_Witness ==
    /\ AuthFailed /\ LoginScreen.request = "/auth/register"
    /\ ~LoginScreen.loading /\ App.user = "null"

\* C28: lookupProduct asks the database first and the external lookup only
\* after the database request failed, never after it succeeded; when the
\* call has ended, on each of its four paths, loading is false.
LookupEnded == ScannerTab.pc \in {"done", "notFound"}

C28_DatabaseFirst ==
    /\ ScannerTab.called \in {<<>>, <<"GET /products/barcode">>,
                              <<"GET /products/barcode", "POST /products/lookup">>}
    /\ Len(ScannerTab.called) = 2 => ScannerTab.got = "failed"
    /\ ScannerTab.got = "product" => Len(ScannerTab.called) = 1
    /\ LookupEnded
          => /\ ~ScannerTab.loading
             /\ ScannerTab.path \in {"database", "lookup", "not found", "lookup error"}
             /\ ScannerTab.path = "database" <=> ScannerTab.got = "product"

C28_Witness ==
    /\ LookupEnded /\ ScannerTab.path = "lookup" /\ Len(ScannerTab.called) = 2
    /\ ~ScannerTab.loading

\* C29: in ScannerTab, showProductModal = true implies product is non-null.
C29_ModalHasProduct == ScannerTab.showProductModal => ScannerTab.product # NullProduct

\* The modal opened by manual entry, with a save that failed.
C29_Witness ==
    /\ ScannerTab.showProductModal /\ ScannerTab.product.from = "manual"
    /\ ScannerTab.save = "failed"

\* C30: a POST /products of saveProduct that fails leaves the modal, the
\* product and the stats as they were; one that succeeds closes the modal,
\* resets product to null and calls onStatsUpdate.
SaveFails == ScannerTab.save = "post" /\ ScannerTab'.save = "failed"
SaveSucceeds == ScannerTab.save = "post" /\ ScannerTab'.save = "saved"

C30_SaveFailureKeepsModal ==
    /\ [][SaveFails => /\ ScannerTab'.showProductModal = ScannerTab.showProductModal
                       /\ ScannerTab'.product = ScannerTab.product
                       /\ UNCHANGED MainApp]_vars
    /\ [][SaveSucceeds => /\ ~ScannerTab'.showProductModal
                          /\ ScannerTab'.product = NullProduct
                          /\ MainApp'.statsLoading]_vars
    /\ [][(ScannerTab.save = "post" /\ ~MainApp.statsLoading /\ MainApp'.statsLoading)
             => SaveSucceeds]_vars

\* A failed save with the modal still showing the product that was sent.
C30_Witness ==
    /\ ScannerTab.save = "failed" /\ ScannerTab.showProductModal
    /\ ScannerTab.product = ScannerTab.saving /\ ~MainApp.statsLoading

====
